---- MODULE Spec2Model ----
(***************************************************************************)
(* Model of the data merge / normalization pipeline of the investment      *)
(* dashboard: ValueCoercion (getValue), UnitNormalizer (toMillions),       *)
(* NameNormalizer (normalizeCompanyName), RecordTransformer                *)
(* (transformExtractedData) and MultiRecordMerger (mergeExtractedData),    *)
(* of the ReportStore (reportStore.js) and of the upload flow that feeds   *)
(* it (processFile, processMultipleFiles), started from the upload zone or *)
(* from the file input of the onboarding.                                  *)
(*                                                                         *)
(* JavaScript values are tagged records:                                   *)
(*   [t |-> "null"], [t |-> "undefined"],                                  *)
(*   [t |-> "number", n |-> Int, d |-> Nat]   the rational n/d in lowest   *)
(*                                  terms; d = 0 encodes NaN (n = 0) and   *)
(*                                  +/-Infinity (n = 1, -1),               *)
(*   [t |-> "string", s |-> sequence of one-character strings],            *)
(*   [t |-> "array",  a |-> sequence of values],                           *)
(*   [t |-> "object", f |-> function from own keys to values],             *)
(*   [t |-> "boolean", b |-> BOOLEAN],                                     *)
(*   [t |-> "throw", kind |-> name]  an exception escaping the function.   *)
(***************************************************************************)
EXTENDS Integers, Sequences, FiniteSets, TLC

VARIABLES arg, dflt, ret, fn,
          allExtractedData, dataArrayIn, extractedData, chartData, phase,
          reports, currentIndex, clock, storeOp, storeRet, saved, dispatched,
          run, overlay, fileStatus, zone

helperVars == <<arg, dflt, ret, fn>>
pipeVars   == <<allExtractedData, dataArrayIn, extractedData, chartData, phase>>
storeVars  == <<reports, currentIndex, clock, storeOp, storeRet, saved, dispatched>>
uploadVars == <<run, overlay, fileStatus, zone>>
vars       == <<arg, dflt, ret, fn,
                allExtractedData, dataArrayIn, extractedData, chartData, phase,
                reports, currentIndex, clock, storeOp, storeRet, saved, dispatched,
                run, overlay, fileStatus, zone>>

(***************************************************************************)
(* Bounds of the model.                                                    *)
(***************************************************************************)
MaxStrLen == 3
MaxPieces == 3
MaxRecords == 3

(***************************************************************************)
(* JavaScript values.                                                      *)
(***************************************************************************)
Null  == [t |-> "null"]
Undef == [t |-> "undefined"]
Throw == [t |-> "throw", kind |-> "TypeError"]
Bool(b) == [t |-> "boolean", b |-> b]
NaN   == [t |-> "number", n |-> 0, d |-> 0]

Str(s) == [t |-> "string", s |-> s]
Arr(a) == [t |-> "array", a |-> a]
Obj(f) == [t |-> "object", f |-> f]

AbsInt(i) == IF i < 0 THEN -i ELSE i

SignInt(i) == IF i < 0 THEN -1 ELSE IF i > 0 THEN 1 ELSE 0

RECURSIVE GCD(_, _)
GCD(a, b) == IF b = 0 THEN a ELSE GCD(b, a % b)

\* The number n/d in lowest terms with a positive denominator; x/0 is
\* NaN for x = 0 and a signed infinity otherwise.
Rat(n, d) ==
    IF d = 0 THEN [t |-> "number", n |-> SignInt(n), d |-> 0]
    ELSE LET g == GCD(AbsInt(n), AbsInt(d))
             s == SignInt(n) * SignInt(d)
         IN  [t |-> "number", n |-> s * (AbsInt(n) \div g), d |-> AbsInt(d) \div g]

Num(i) == Rat(i, 1)

IsNumber(v) == v.t = "number"

IsNaN(v) == IsNumber(v) /\ v.d = 0 /\ v.n = 0

IsFinite(v) == IsNumber(v) /\ v.d > 0

\* Arithmetic on finite numbers; NaN is contagious.
\* Common factors are cancelled crosswise before multiplying.
Mul(a, b) ==
    IF IsFinite(a) /\ IsFinite(b)
    THEN LET g1 == GCD(AbsInt(a.n), b.d)
             g2 == GCD(AbsInt(b.n), a.d)
         IN  Rat((a.n \div g1) * (b.n \div g2), (a.d \div g2) * (b.d \div g1))
    ELSE NaN

Div(a, b) ==
    IF IsFinite(a) /\ IsFinite(b)
    THEN IF b.n = 0 THEN Rat(a.n, 0)
         ELSE Mul(a, [t |-> "number", n |-> SignInt(b.n) * b.d, d |-> AbsInt(b.n)])
    ELSE NaN

Neg(a) == IF IsNaN(a) THEN NaN ELSE [a EXCEPT !.n = -a.n]

Abs(a) == IF IsNaN(a) THEN NaN ELSE [a EXCEPT !.n = AbsInt(a.n)]

\* a > b; every comparison with NaN is false.
Gt(a, b) == IsFinite(a) /\ IsFinite(b) /\ a.n * b.d > b.n * a.d

\* ToBoolean
Truthy(v) ==
    CASE v.t = "null"      -> FALSE
      [] v.t = "undefined" -> FALSE
      [] v.t = "number"    -> v.n # 0
      [] v.t = "string"    -> Len(v.s) > 0
      [] v.t = "boolean"   -> v.b
      [] OTHER             -> TRUE

\* a || b
Or(a, b) == IF Truthy(a) THEN a ELSE b

\* obj[key]: a missing property reads as undefined.
Get(obj, key) ==
    IF obj.t = "object" /\ key \in DOMAIN obj.f THEN obj.f[key] ELSE Undef

\* obj?.value
OptValue(v) ==
    IF v.t \in {"null", "undefined"} THEN Undef ELSE Get(v, "value")

(***************************************************************************)
(* Characters and strings.                                                 *)
(***************************************************************************)
Digits == <<"0", "1", "2", "3", "4", "5", "6", "7", "8", "9">>

Lower == <<"a", "b", "c", "d", "e", "f", "g", "h", "i", "j", "k", "l", "m",
           "n", "o", "p", "q", "r", "s", "t", "u", "v", "w", "x", "y", "z">>

Upper == <<"A", "B", "C", "D", "E", "F", "G", "H", "I", "J", "K", "L", "M",
           "N", "O", "P", "Q", "R", "S", "T", "U", "V", "W", "X", "Y", "Z">>

IsDigit(c) == \E i \in 1..10 : Digits[i] = c

DigitVal(c) == (CHOOSE i \in 1..10 : Digits[i] = c) - 1

IsSpace(c) == c \in {" ", "\t"}

toUpperCase(c) ==
    IF \E i \in 1..26 : Lower[i] = c
    THEN Upper[CHOOSE i \in 1..26 : Lower[i] = c] ELSE c

toLowerCase(c) ==
    IF \E i \in 1..26 : Upper[i] = c
    THEN Lower[CHOOSE i \in 1..26 : Upper[i] = c] ELSE c

LowerStr(s) == [i \in 1..Len(s) |-> toLowerCase(s[i])]

RECURSIVE DigitPrefix(_)
DigitPrefix(s) ==
    IF s = <<>> \/ ~IsDigit(Head(s)) THEN <<>>
    ELSE <<Head(s)>> \o DigitPrefix(Tail(s))

RECURSIVE DigitsToNat(_)
DigitsToNat(ds) ==
    IF ds = <<>> THEN 0
    ELSE 10 * DigitsToNat(SubSeq(ds, 1, Len(ds) - 1)) + DigitVal(ds[Len(ds)])

RECURSIVE Pow10(_)
Pow10(k) == IF k = 0 THEN 1 ELSE 10 * Pow10(k - 1)

RECURSIVE TrimStart(_)
TrimStart(s) ==
    IF s # <<>> /\ IsSpace(Head(s)) THEN TrimStart(Tail(s)) ELSE s

RECURSIVE TrimEnd(_)
TrimEnd(s) ==
    IF s # <<>> /\ IsSpace(s[Len(s)]) THEN TrimEnd(SubSeq(s, 1, Len(s) - 1)) ELSE s

Trim(s) == TrimEnd(TrimStart(s))

\* parseFloat of a character sequence: leading blanks, an optional sign,
\* then the longest prefix digits[.digits] or .digits; NaN without a digit.
parseFloat(s) ==
    LET t0    == TrimStart(s)
        neg   == t0 # <<>> /\ Head(t0) = "-"
        sgn   == t0 # <<>> /\ Head(t0) \in {"-", "+"}
        body  == IF sgn THEN Tail(t0) ELSE t0
        ip    == DigitPrefix(body)
        after == SubSeq(body, Len(ip) + 1, Len(body))
        fp    == IF after # <<>> /\ Head(after) = "."
                 THEN DigitPrefix(Tail(after)) ELSE <<>>
        mag   == DigitsToNat(ip) * Pow10(Len(fp)) + DigitsToNat(fp)
    IN  IF Len(ip) + Len(fp) = 0 THEN NaN
        ELSE Rat(IF neg THEN -mag ELSE mag, Pow10(Len(fp)))

(***************************************************************************)
(* NameNormalizer.                                                         *)
(***************************************************************************)
\* The alternatives of /\s+(COMPANY|CO\.?|LTD\.?|INC\.?)$/i, lower-cased.
SuffixTokens ==
    { <<"c", "o", "m", "p", "a", "n", "y">>,
      <<"c", "o">>, <<"c", "o", ".">>,
      <<"l", "t", "d">>, <<"l", "t", "d", ".">>,
      <<"i", "n", "c">>, <<"i", "n", "c", ".">> }

\* name.replace(/^(AL\s+)/i, '')
StripAlPrefix(s) ==
    IF Len(s) >= 3 /\ toLowerCase(s[1]) = "a" /\ toLowerCase(s[2]) = "l" /\ IsSpace(s[3])
    THEN TrimStart(SubSeq(s, 3, Len(s)))
    ELSE s

\* s ends with blank(s) followed by the token tok, ignoring case.
EndsWithToken(s, tok) ==
    /\ Len(s) > Len(tok)
    /\ LowerStr(SubSeq(s, Len(s) - Len(tok) + 1, Len(s))) = tok
    /\ IsSpace(s[Len(s) - Len(tok)])

\* .replace(/\s+(COMPANY|CO\.?|LTD\.?|INC\.?)$/i, ' Company'): the leftmost
\* match starts at the first blank of the run in front of the final token.
ReplaceSuffix(s) ==
    IF \E tok \in SuffixTokens : EndsWithToken(s, tok)
    THEN LET tok == CHOOSE k \in SuffixTokens : EndsWithToken(s, k)
             pre == TrimEnd(SubSeq(s, 1, Len(s) - Len(tok)))
         IN  pre \o <<" ", "C", "o", "m", "p", "a", "n", "y">>
    ELSE s

\* .replace(/\s+/g, ' ')
RECURSIVE CollapseSpaces(_)
CollapseSpaces(s) ==
    IF s = <<>> THEN <<>>
    ELSE IF IsSpace(Head(s)) THEN <<" ">> \o CollapseSpaces(TrimStart(s))
    ELSE <<Head(s)>> \o CollapseSpaces(Tail(s))

\* word.charAt(0).toUpperCase() + word.slice(1).toLowerCase()
TitleWord(w) ==
    [i \in 1..Len(w) |-> IF i = 1 THEN toUpperCase(w[i]) ELSE toLowerCase(w[i])]

\* .split(' ').map(TitleWord).join(' '): a word starts at position 1 and
\* after every single space.
TitleCase(s) ==
    [i \in 1..Len(s) |->
        IF s[i] = " " THEN " "
        ELSE IF i = 1 \/ s[i - 1] = " " THEN toUpperCase(s[i])
        ELSE toLowerCase(s[i])]

normalizeCompanyName(name) ==
    IF ~Truthy(name) THEN Str(<<"C", "o", "m", "p", "a", "n", "y">>)
    ELSE IF name.t # "string" THEN Throw
    ELSE Str(TitleCase(Trim(CollapseSpaces(ReplaceSuffix(StripAlPrefix(name.s))))))

(***************************************************************************)
(* ValueCoercion and UnitNormalizer.                                       *)
(***************************************************************************)
\* field.replace(/[^0-9.-]/g, '')
StripNonNumeric(s) ==
    SelectSeq(s, LAMBDA c : IsDigit(c) \/ c = "." \/ c = "-")

\* Variant: the parsed string returned without the isNaN test.
getValue_noNaNCheck(field, defaultVal) ==
    IF field.t \in {"null", "undefined"} THEN defaultVal
    ELSE IF field.t = "number" THEN field
    ELSE IF field.t \in {"object", "array"} /\ Get(field, "value") # Undef
         THEN IF Get(field, "value").t = "number" THEN Get(field, "value") ELSE defaultVal
    ELSE IF field.t = "string" THEN parseFloat(StripNonNumeric(field.s))
    ELSE defaultVal

\* Variant: a wrapper around a non-number falls back to 0, not to defaultVal.
getValue_zeroFallback(field, defaultVal) ==
    IF field.t \in {"null", "undefined"} THEN defaultVal
    ELSE IF field.t = "number" THEN field
    ELSE IF field.t \in {"object", "array"} /\ Get(field, "value") # Undef
         THEN IF Get(field, "value").t = "number" THEN Get(field, "value") ELSE Num(0)
    ELSE IF field.t = "string"
         THEN LET parsed == parseFloat(StripNonNumeric(field.s))
              IN  IF IsNaN(parsed) THEN defaultVal ELSE parsed
    ELSE defaultVal

getValue(field, defaultVal) ==
    IF field.t \in {"null", "undefined"} THEN defaultVal
    ELSE IF field.t = "number" THEN field
    ELSE IF field.t \in {"object", "array"} /\ Get(field, "value") # Undef
         THEN IF Get(field, "value").t = "number" THEN Get(field, "value") ELSE defaultVal
    ELSE IF field.t = "string"
         THEN LET parsed == parseFloat(StripNonNumeric(field.s))
              IN  IF IsNaN(parsed) THEN defaultVal ELSE parsed
    ELSE defaultVal

Million == 1000000

Threshold == 100000

\* Variant: the threshold test Math.abs(value) >= 100000.
toMillions_inclusive(value) ==
    IF ~Truthy(value) \/ value = Num(0) THEN Num(0)
    ELSE IF ~Gt(Num(Threshold), Abs(value)) THEN Div(value, Num(Million))
    ELSE value

toMillions(value) ==
    IF ~Truthy(value) \/ value = Num(0) THEN Num(0)
    ELSE IF Gt(Abs(value), Num(Threshold)) THEN Div(value, Num(Million))
    ELSE value

(***************************************************************************)
(* MultiRecordMerger.                                                      *)
(***************************************************************************)
\* parseInt(v): ToString(v), leading blanks, an optional sign, then the
\* longest digit prefix in radix 10; NaN without a digit.  A finite number
\* is truncated toward zero.
parseInt(v) ==
    IF v.t = "string"
    THEN LET t0   == TrimStart(v.s)
             neg  == t0 # <<>> /\ Head(t0) = "-"
             sgn  == t0 # <<>> /\ Head(t0) \in {"-", "+"}
             body == IF sgn THEN Tail(t0) ELSE t0
             ip   == DigitPrefix(body)
         IN  IF ip = <<>> THEN NaN
             ELSE Num(IF neg THEN -DigitsToNat(ip) ELSE DigitsToNat(ip))
    ELSE IF IsFinite(v) THEN Num(SignInt(v.n) * (AbsInt(v.n) \div v.d))
    ELSE NaN

\* parseInt(x) || 0, as an integer
YearKey(x) == Or(parseInt(x), Num(0)).n

\* Variant: elements with equal keys come out in reverse input order.
StableSort_reverseTies(s, key) ==
    LET n      == Len(s)
        pos(i) == 1 + Cardinality({j \in 1..n : key[j] < key[i] \/ (key[j] = key[i] /\ j > i)})
    IN  [p \in 1..n |-> s[CHOOSE i \in 1..n : pos(i) = p]]

\* Array.prototype.sort is stable: element i of s goes behind every element
\* with a smaller key and every earlier element with an equal key.
StableSort(s, key) ==
    LET n      == Len(s)
        pos(i) == 1 + Cardinality({j \in 1..n : key[j] < key[i] \/ (key[j] = key[i] /\ j < i)})
    IN  [p \in 1..n |-> s[CHOOSE i \in 1..n : pos(i) = p]]

\* Variant: the comparator reversed (yearB - yearA).
SortByFiscalYear_descending(dataArray) ==
    StableSort(dataArray, [i \in 1..Len(dataArray) |-> -YearKey(Get(dataArray[i], "fiscalYear"))])

\* dataArray.sort((a, b) => yearA - yearB)
SortByFiscalYear(dataArray) ==
    StableSort(dataArray, [i \in 1..Len(dataArray) |-> YearKey(Get(dataArray[i], "fiscalYear"))])

\* Variant: the events sorted with the comparator of the records (yearA - yearB).
SortEventsDesc_ascending(events) ==
    StableSort(events, [i \in 1..Len(events) |-> YearKey(Get(events[i], "year"))])

\* merged.qualitativeEvents.sort((a, b) => yearB - yearA)
SortEventsDesc(events) ==
    StableSort(events, [i \in 1..Len(events) |-> -YearKey(Get(events[i], "year"))])

\* The helper getVal of mergeExtractedData.
getVal(obj, key) ==
    LET val == Get(obj, key)
    IN  IF val.t \in {"null", "undefined"} THEN Null
        ELSE IF val.t = "number" THEN val
        ELSE IF val.t \in {"object", "array"} /\ Get(val, "value") # Undef THEN Get(val, "value")
        ELSE Null

\* The metric arrays, in the order the forEach body pushes to them.
MetricKeys ==
    << "revenue", "grossProfit", "netProfit", "grossMargin", "netMargin",
       "totalAssets", "currentAssets", "totalLiabilities", "currentLiabilities",
       "shareholderEquity", "roe", "currentRatio", "debtToEquity", "eps",
       "operatingCashFlow", "investingCashFlow", "financingCashFlow", "fcf" >>

MetricKeySet == {MetricKeys[i] : i \in 1..Len(MetricKeys)}

RECURSIVE ToKey(_)
ToKey(s) == IF s = <<>> THEN "" ELSE Head(s) \o ToKey(Tail(s))

\* The property key of a value used as obj[value].
PropKey(v) ==
    IF v.t = "string" THEN ToKey(v.s) ELSE v.t

NotAvailable == Str(<<"N", "/", "A">>)

\* obj[key] = v
SetProp(obj, key, v) == Obj((key :> v) @@ obj.f)

\* arr.push(v)
Push(arr, v) == Arr(Append(arr.a, v))

\* data.qualitativeEvents.length > 0 and the elements the spread pushes.
SpreadItems(v) ==
    IF v.t = "array" THEN v.a
    ELSE IF v.t = "string" THEN [i \in 1..Len(v.s) |-> Str(<<v.s[i]>>)]
    ELSE <<>>

\* Variant: a metric is pushed only when the record reports it.
MergeRecord_skipMissing(m, data) ==
    LET year == Or(Get(data, "fiscalYear"), NotAvailable)
        qe   == Get(data, "qualitativeEvents")
    IN  Obj([k \in DOMAIN m.f |->
              CASE k = "years" -> Push(m.f[k], year)
                [] k \in MetricKeySet ->
                     IF getVal(data, k) = Null THEN m.f[k] ELSE Push(m.f[k], getVal(data, k))
                [] k = "qualitativeEvents" ->
                     IF Truthy(qe) /\ Len(SpreadItems(qe)) > 0
                     THEN Arr(m.f[k].a \o SpreadItems(qe))
                     ELSE m.f[k]
                [] OTHER -> m.f[k]])

\* One iteration of dataArray.forEach(data => { ... }): a push to years and
\* to every metric array, the year-keyed dividends and cashEquivalents when
\* the record reports them, and the record's events.
MergeRecord(m, data) ==
    LET year == Or(Get(data, "fiscalYear"), NotAvailable)
        qe   == Get(data, "qualitativeEvents")
    IN  Obj([k \in DOMAIN m.f |->
              CASE k = "years" -> Push(m.f[k], year)
                [] k \in MetricKeySet -> Push(m.f[k], Or(getVal(data, k), Num(0)))
                [] k = "dividends" ->
                     IF Truthy(Get(data, "dividends"))
                     THEN SetProp(m.f[k], PropKey(year),
                                  Or(getVal(data, "dividends"),
                                     getVal(Get(data, "dividends"), PropKey(year))))
                     ELSE m.f[k]
                [] k = "cashEquivalents" ->
                     IF Truthy(Or(Get(data, "cashEquivalents"), Get(data, "cash")))
                     THEN SetProp(m.f[k], PropKey(year),
                                  Or(Or(getVal(data, "cashEquivalents"), getVal(data, "cash")), Num(0)))
                     ELSE m.f[k]
                [] k = "qualitativeEvents" ->
                     IF Truthy(qe) /\ Len(SpreadItems(qe)) > 0
                     THEN Arr(m.f[k].a \o SpreadItems(qe))
                     ELSE m.f[k]
                [] OTHER -> m.f[k]])

\* Variant: a record whose year is already in years is skipped.
RECURSIVE MergeAll_distinctYears(_, _, _)
MergeAll_distinctYears(m, sorted, i) ==
    IF i > Len(sorted) THEN m
    ELSE LET year == Or(Get(sorted[i], "fiscalYear"), NotAvailable)
             seen == \E j \in 1..Len(m.f.years.a) : m.f.years.a[j] = year
         IN  MergeAll_distinctYears(IF seen THEN m ELSE MergeRecord(m, sorted[i]), sorted, i + 1)

RECURSIVE MergeAll(_, _, _)
MergeAll(m, sorted, i) ==
    IF i > Len(sorted) THEN m
    ELSE MergeAll(MergeRecord(m, sorted[i]), sorted, i + 1)

\* Variant: name and fiscal year taken from the first record (dataArray[0]).
MergedInit_firstRecord(sorted) ==
    LET first == sorted[1]
    IN  Obj( [k \in MetricKeySet |-> Arr(<<>>)] @@
             [ companyName       |-> Or(Get(first, "companyName"), Str(<<"C", "o", "m", "p", "a", "n", "y">>)),
               fiscalYear        |-> Get(first, "fiscalYear"),
               years             |-> Arr(<<>>),
               dividends         |-> Obj(<<>>),
               cashEquivalents   |-> Obj(<<>>),
               qualitativeEvents |-> Arr(<<>>),
               _sources          |-> Arr([i \in 1..Len(sorted) |->
                                          Obj([year |-> Get(sorted[i], "fiscalYear"),
                                               file |-> Get(sorted[i], "_fileName")])]) ] )

\* The object literal `merged` before the forEach.
MergedInit(sorted) ==
    LET last == sorted[Len(sorted)]
    IN  Obj( [k \in MetricKeySet |-> Arr(<<>>)] @@
             [ companyName       |-> Or(Get(last, "companyName"), Str(<<"C", "o", "m", "p", "a", "n", "y">>)),
               fiscalYear        |-> Get(last, "fiscalYear"),
               years             |-> Arr(<<>>),
               dividends         |-> Obj(<<>>),
               cashEquivalents   |-> Obj(<<>>),
               qualitativeEvents |-> Arr(<<>>),
               _sources          |-> Arr([i \in 1..Len(sorted) |->
                                          Obj([year |-> Get(sorted[i], "fiscalYear"),
                                               file |-> Get(sorted[i], "_fileName")])]) ] )

\* mergeExtractedData(dataArray): the array is sorted in place; reading
\* dataArray[-1].companyName of an empty array throws a TypeError.
mergeExtractedData(dataArray) ==
    IF dataArray = <<>> THEN Throw
    ELSE LET sorted == SortByFiscalYear(dataArray)
             m      == MergeAll(MergedInit(sorted), sorted, 1)
         IN  SetProp(m, "qualitativeEvents", Arr(SortEventsDesc(Get(m, "qualitativeEvents").a)))

(***************************************************************************)
(* RecordTransformer.                                                      *)
(***************************************************************************)
\* Variant: roe collapsed to the first element (data.roe[0]).
PassThrough_firstRoe(data) ==
    LET roe  == Get(data, "roe")
        name == normalizeCompanyName(Get(data, "companyName"))
    IN  IF name = Throw THEN Throw
        ELSE Obj( [ companyName |-> name,
                    roe         |-> IF roe.t = "array"
                                    THEN (IF roe.a = <<>> THEN Undef ELSE roe.a[1])
                                    ELSE roe,
                    totalEquity |-> Or(Get(data, "shareholderEquity"), Get(data, "totalEquity")) ]
                  @@ data.f )

\* The branch for data that is already in merged format.
PassThrough(data) ==
    LET roe  == Get(data, "roe")
        name == normalizeCompanyName(Get(data, "companyName"))
    IN  IF name = Throw THEN Throw
        ELSE Obj( [ companyName |-> name,
                    roe         |-> IF roe.t = "array"
                                    THEN (IF roe.a = <<>> THEN Undef ELSE roe.a[Len(roe.a)])
                                    ELSE roe,
                    totalEquity |-> Or(Get(data, "shareholderEquity"), Get(data, "totalEquity")) ]
                  @@ data.f )

\* Variant: the guard divisor !== 0 in place of divisor > 0.
DerivedRatio_nonZeroDivisor(reported, divisor, formula) ==
    IF ~Truthy(reported) /\ divisor # Num(0) THEN formula ELSE reported

\* let x = getValue(data.<key>); if (!x && divisor > 0) x = <formula>
DerivedRatio(reported, divisor, formula) ==
    IF ~Truthy(reported) /\ Gt(divisor, Num(0)) THEN formula ELSE reported

\* data.<key>?.value || estimate
CashFlow(data, key, estimate) == Or(OptValue(Get(data, key)), estimate)

Hundred == 100

DefaultPharma == 65

DefaultFrontShop == 35

\* The branch for a single raw extraction record.
TransformRecord(data) ==
    LET revenue            == toMillions(getValue(Get(data, "revenue"), Num(0)))
        netProfit          == toMillions(getValue(Get(data, "netProfit"), Num(0)))
        grossMargin        == getValue(Get(data, "grossMargin"), Num(0))
        totalLiabilities   == toMillions(getValue(Get(data, "totalLiabilities"), Num(0)))
        shareholderEquity  == toMillions(getValue(Get(data, "shareholderEquity"), Num(0)))
        currentAssets      == toMillions(getValue(Get(data, "currentAssets"), Num(0)))
        currentLiabilities == toMillions(getValue(Get(data, "currentLiabilities"), Num(0)))
        netMargin    == DerivedRatio(getValue(Get(data, "netMargin"), Num(0)), revenue,
                                     Mul(Div(netProfit, revenue), Num(Hundred)))
        currentRatio == DerivedRatio(getValue(Get(data, "currentRatio"), Num(0)), currentLiabilities,
                                     Div(currentAssets, currentLiabilities))
        debtToEquity == DerivedRatio(getValue(Get(data, "debtToEquity"), Num(0)), shareholderEquity,
                                     Div(totalLiabilities, shareholderEquity))
        roe          == DerivedRatio(getValue(Get(data, "roe"), Num(0)), shareholderEquity,
                                     Mul(Div(netProfit, shareholderEquity), Num(Hundred)))
        year         == Or(Get(data, "fiscalYear"), NotAvailable)
        companyName  == normalizeCompanyName(Get(data, "companyName"))
    IN  IF companyName = Throw THEN Throw
        ELSE Obj(
          [ companyName       |-> companyName,
            fiscalYear        |-> year,
            years             |-> Arr(<<year>>),
            revenue           |-> Arr(<<revenue>>),
            grossMargin       |-> Arr(<<grossMargin>>),
            netMargin         |-> Arr(<<netMargin>>),
            netProfit         |-> Arr(<<netProfit>>),
            currentRatio      |-> Arr(<<currentRatio>>),
            debtToEquity      |-> Arr(<<debtToEquity>>),
            totalLiabilities  |-> Arr(<<totalLiabilities>>),
            totalEquity       |-> Arr(<<shareholderEquity>>),
            operatingCashFlow |-> Arr(<<CashFlow(data, "operatingCashFlow", Mul(netProfit, Rat(12, 10)))>>),
            investingCashFlow |-> Arr(<<CashFlow(data, "investingCashFlow", Mul(Neg(netProfit), Rat(3, 10)))>>),
            financingCashFlow |-> Arr(<<CashFlow(data, "financingCashFlow", Mul(Neg(netProfit), Rat(5, 10)))>>),
            fcf               |-> Arr(<<CashFlow(data, "fcf", Mul(netProfit, Rat(9, 10)))>>),
            segmentPharma     |-> Or(Get(data, "segmentPharma"), Num(DefaultPharma)),
            segmentFrontShop  |-> Or(Get(data, "segmentFrontShop"), Num(DefaultFrontShop)),
            roe               |-> roe,
            eps               |-> Or(OptValue(Get(data, "eps")), Num(0)),
            dividends         |-> IF Truthy(Get(data, "dividends"))
                                  THEN Obj(PropKey(year) :> getValue(Get(data, "dividends"), Num(0)))
                                  ELSE Null,
            cashEquivalents   |-> IF Truthy(Get(data, "cashEquivalents"))
                                  THEN Obj(PropKey(year) :> toMillions(getValue(Get(data, "cashEquivalents"), Num(0))))
                                  ELSE Null,
            _extracted        |-> data ])

\* data.years && Array.isArray(data.years) && data.years.length > 0 &&
\* Array.isArray(data.revenue)
IsMergedFormat(data) ==
    /\ Get(data, "years").t = "array"
    /\ Len(Get(data, "years").a) > 0
    /\ Get(data, "revenue").t = "array"

transformExtractedData(data) ==
    IF IsMergedFormat(data) THEN PassThrough(data) ELSE TransformRecord(data)

(***************************************************************************)
(* Inputs of the helper functions.                                         *)
(***************************************************************************)
\* All sequences over the set S of length at most n.
SeqsUpTo(S, n) == UNION {[1..k -> S] : k \in 0..n}

RECURSIVE Flatten(_)
Flatten(ss) == IF ss = <<>> THEN <<>> ELSE Head(ss) \o Flatten(Tail(ss))

\* Finite numbers an extraction can carry: zero, figures in millions,
\* figures in raw currency, both sides of the unit threshold, fractions.
NumberSamples ==
    { Num(0), Num(42), Rat(21, 2), Num(-500), Rat(87137, 10),
      Num(Threshold), Num(-Threshold), Num(Threshold + 1), Num(-(Threshold + 1)),
      Rat(2 * Threshold + 1, 2), Rat(-(2 * Threshold + 1), 2),
      Num(892600000), Num(-500000000) }

\* Characters of decorated numeric strings such as "4.2%", "-4", "S4,2".
StrChars == {"4", "2", ".", "-", "%", ",", "S"}

StringSamples == {Str(s) : s \in SeqsUpTo(StrChars, MaxStrLen)}

\* { value: X } wrappers with X a number, a string, null or undefined, and {}.
ObjectSamples ==
    { Obj([value |-> v]) : v \in NumberSamples \cup {Str(<<"4", "2">>), Str(<<"n", "a">>), Null, Undef} }
    \cup { Obj([unit |-> Str(<<"S">>)]) }

FieldInputs == {Null, Undef} \cup NumberSamples \cup StringSamples \cup ObjectSamples

DefaultInputs == {Num(0), Num(99)}

NamePieces ==
    { <<"A", "L">>, <<"a", "l">>, <<" ">>, <<"\t">>,
      <<"N", "A", "H", "D", "I">>, <<"m", "e", "d">>,
      <<"C", "O", "M", "P", "A", "N", "Y">>, <<"C", "o", ".">>,
      <<"L", "T", "D">>, <<"i", "n", "c", ".">> }

NameInputs ==
    {Null, Undef} \cup {Str(Flatten(ps)) : ps \in SeqsUpTo(NamePieces, MaxPieces)}

(***************************************************************************)
(* Specification of the helper functions: one call on one input, and a     *)
(* second normalization of a normalized name.                              *)
(***************************************************************************)
PipeIdle ==
    /\ allExtractedData = <<>>
    /\ dataArrayIn = <<>>
    /\ extractedData = Null
    /\ chartData = Null
    /\ phase = "idle"

HelperIdle ==
    /\ arg = Undef
    /\ dflt = Num(0)
    /\ ret = Undef
    /\ fn = "none"

\* reportStore.js as loaded with an empty localStorage; the clock is the
\* value Date.now() last returned.
StoreIdle ==
    /\ reports = <<>>
    /\ currentIndex = -1
    /\ clock = 0
    /\ storeOp = "none"
    /\ storeRet = Undef
    /\ saved = Null
    /\ dispatched = <<>>

\* The upload runs a page can have in flight at once.
Runs == {"first", "second"}

\* The locals of a run before it starts: the function it executes, the
\* await it is suspended at, its files, the loop index i, textContent, data,
\* report, and the history of its steps.
IdleRun ==
    [ fn |-> "none", pc |-> "idle", files |-> <<>>, i |-> 0, textContent |-> Undef,
      data |-> Undef, report |-> Undef, trace |-> <<>> ]

\* fileUpload.js as loaded: no run, no overlay, an untouched upload zone and
\* file list.
UploadIdle ==
    /\ run = [r \in Runs |-> IdleRun]
    /\ overlay = FALSE
    /\ fileStatus = <<>>
    /\ zone = "idle"

InitHelpers ==
    /\ arg \in FieldInputs \cup NameInputs
    /\ dflt = Num(0)
    /\ ret = Undef
    /\ fn = "none"
    /\ PipeIdle
    /\ StoreIdle
    /\ UploadIdle

CallGetValue ==
    /\ fn = "none"
    /\ arg \in FieldInputs
    /\ \E dv \in DefaultInputs :
          /\ dflt' = dv
          /\ ret' = getValue(arg, dv)
    /\ fn' = "getValue"
    /\ UNCHANGED <<storeVars, uploadVars, arg, allExtractedData, dataArrayIn, extractedData, chartData, phase>>

CallToMillions ==
    /\ fn = "none"
    /\ arg \in NumberSamples
    /\ ret' = toMillions(arg)
    /\ fn' = "toMillions"
    /\ UNCHANGED <<storeVars, uploadVars, arg, dflt, allExtractedData, dataArrayIn, extractedData, chartData, phase>>

CallNormalize ==
    /\ fn = "none"
    /\ arg \in NameInputs
    /\ ret' = normalizeCompanyName(arg)
    /\ fn' = "normalizeCompanyName"
    /\ UNCHANGED <<storeVars, uploadVars, arg, dflt, allExtractedData, dataArrayIn, extractedData, chartData, phase>>

\* normalize(normalize(x)): the first result becomes the argument.
CallNormalizeAgain ==
    /\ fn = "normalizeCompanyName"
    /\ arg' = ret
    /\ ret' = normalizeCompanyName(ret)
    /\ fn' = "normalizeCompanyName2"
    /\ UNCHANGED <<storeVars, uploadVars, dflt, allExtractedData, dataArrayIn, extractedData, chartData, phase>>

NextHelpers ==
    \/ CallGetValue
    \/ CallToMillions
    \/ CallNormalize
    \/ CallNormalizeAgain

SpecHelpers == InitHelpers /\ [][NextHelpers]_vars

(***************************************************************************)
(* Inputs of the pipeline.                                                 *)
(***************************************************************************)
Y2021 == Str(<<"2", "0", "2", "1">>)
Y2022 == Str(<<"2", "0", "2", "2">>)
Y2023 == Str(<<"2", "0", "2", "3">>)
YUnparsable == Str(<<"F", "Y", "2", "4">>)

Event(description, year, amount) ==
    Obj([description |-> Str(description), year |-> year, amount |-> Num(amount),
         nature |-> Str(<<"o", "n", "e">>)])

\* Extraction records handed to mergeExtractedData: distinct years, a
\* repeated year, a null and an unparsable year, an empty and a null name,
\* plain, wrapped, string and missing metrics, a wrapper around a string,
\* events in ascending order.
SampleRecords ==
    { Obj([ fiscalYear |-> Y2021, companyName |-> Str(<<"N", "a", "h", "d", "i">>),
            revenue |-> Num(8250), netProfit |-> Rat(8333, 10),
            _fileName |-> Str(<<"a">>) ]),
      Obj([ fiscalYear |-> Y2022, companyName |-> Str(<<"O", "l", "d", " ", "C", "O">>),
            revenue |-> Obj([value |-> Rat(86162, 10)]), netProfit |-> Rat(8878, 10),
            netMargin |-> Rat(103, 10), roe |-> Rat(3957, 100),
            dividends |-> Rat(11, 2),
            qualitativeEvents |-> Arr(<<Event(<<"f">>, Y2022, 13)>>),
            _fileName |-> Str(<<"b">>) ]),
      Obj([ fiscalYear |-> Y2023, companyName |-> Str(<<"A", "L", " ", "N", "e", "w">>),
            revenue |-> Rat(87137, 10), netProfit |-> Obj([value |-> Rat(8926, 10)]),
            roe |-> Obj([value |-> Rat(3624, 100)]),
            cashEquivalents |-> Num(1240),
            dividends |-> Obj(("2023" :> Num(6))),
            qualitativeEvents |-> Arr(<<Event(<<"g">>, Y2021, -7), Event(<<"h">>, Y2023, 64)>>),
            _fileName |-> Str(<<"c">>) ]),
      Obj([ fiscalYear |-> Y2023, companyName |-> Str(<<>>),
            revenue |-> Num(100), netProfit |-> Num(0),
            dividends |-> Str(<<"5", ".", "5">>),
            _fileName |-> Str(<<"d">>) ]),
      Obj([ fiscalYear |-> Null, companyName |-> Null,
            revenue |-> Str(<<"8", "6", "1", "6">>), netProfit |-> Null,
            grossMargin |-> Obj([value |-> Str(<<"3", "2">>)]),
            cash |-> Num(892),
            _fileName |-> Str(<<"e">>) ]),
      Obj([ fiscalYear |-> YUnparsable, companyName |-> Str(<<"F", "y">>),
            revenue |-> Num(892600000), netProfit |-> Num(-500),
            qualitativeEvents |-> Arr(<<Event(<<"i">>, YUnparsable, 1)>>),
            _fileName |-> Str(<<"f">>) ]) }

MergeInputs == SeqsUpTo(SampleRecords, MaxRecords)

\* A key that is either absent or carries one of the values V.
Opt(key, V) == {<<>>} \cup {key :> v : v \in V}

\* Single extraction records handed to transformExtractedData: the base
\* figures with a positive, zero, negative or missing divisor, every
\* derived ratio reported (truthy), reported as zero or missing, and the
\* cash-flow fields absent, plain, wrapped (around a number or a string) or
\* null.
RatioInputs ==
    { a @@ b @@ c @@ d :
        a \in Opt("netMargin", {Num(0), Obj([value |-> Rat(1024, 100)])}),
        b \in Opt("currentRatio", {Rat(169, 100)}),
        c \in Opt("debtToEquity", {Str(<<"1", ".", "2">>)}),
        d \in Opt("roe", {Obj([value |-> Num(0)]), Rat(3624, 100)}) }

BaseInputs ==
    { a @@ b @@ c @@ d @@ [currentAssets |-> Num(3800), totalLiabilities |-> Rat(27015, 10)] :
        a \in {"netProfit" :> v : v \in {Rat(8878, 10), Obj([value |-> Num(892600000)])}},
        b \in {"revenue" :> v : v \in {Rat(86162, 10), Num(0), Num(-5)}},
        c \in Opt("shareholderEquity", {Rat(22434, 10), Num(-10)}),
        d \in Opt("currentLiabilities", {Num(2235)}) }

CashFlowKeys == {"operatingCashFlow", "investingCashFlow", "financingCashFlow", "fcf"}

CashInputs ==
    {<<>>} \cup
    { [k \in CashFlowKeys |-> v] :
        v \in {Num(1500), Num(-280), Obj([value |-> Num(1368)]), Obj([value |-> Num(0)]),
               Obj([value |-> Str(<<"1", "2">>)]), Null} }

IdentityInputs ==
    { [companyName |-> Str(<<"A", "L", " ", "N", "A", "H", "D", "I", " ", "C", "O">>),
       fiscalYear |-> Y2022],
      [companyName |-> Null, fiscalYear |-> Null] }

SingleRecords ==
    { Obj(i @@ b @@ r @@ c) :
        i \in IdentityInputs, b \in BaseInputs, r \in RatioInputs, c \in CashInputs }

(***************************************************************************)
(* Specification of the pipeline: mergeExtractedData on a batch of         *)
(* records, transformExtractedData on the stored dataset (a single record  *)
(* or a merged dataset, as getFinancialData hands it over).                *)
(***************************************************************************)
InitPipeline ==
    /\ HelperIdle
    /\ StoreIdle
    /\ UploadIdle
    /\ chartData = Null
    /\ phase = "input"
    /\ \/ /\ allExtractedData \in MergeInputs
          /\ extractedData = Null
       \/ /\ allExtractedData = <<>>
          /\ extractedData \in SingleRecords
    /\ dataArrayIn = allExtractedData

\* const mergedData = mergeExtractedData(allExtractedData)
CallMerge ==
    /\ phase = "input"
    /\ extractedData = Null
    /\ allExtractedData' = SortByFiscalYear(allExtractedData)
    /\ extractedData' = mergeExtractedData(allExtractedData)
    /\ phase' = IF allExtractedData = <<>> THEN "threw" ELSE "merged"
    /\ UNCHANGED <<storeVars, uploadVars, dataArrayIn, chartData, arg, dflt, ret, fn>>

\* getFinancialData() on a report holding a single extraction record
CallTransform ==
    /\ phase = "input"
    /\ extractedData # Null
    /\ chartData' = transformExtractedData(extractedData)
    /\ phase' = "transformed"
    /\ UNCHANGED <<storeVars, uploadVars, allExtractedData, dataArrayIn, extractedData, arg, dflt, ret, fn>>

\* getFinancialData() on a report holding a merged dataset
CallTransformMerged ==
    /\ phase = "merged"
    /\ chartData' = transformExtractedData(extractedData)
    /\ phase' = "passedThrough"
    /\ UNCHANGED <<storeVars, uploadVars, allExtractedData, dataArrayIn, extractedData, arg, dflt, ret, fn>>

NextPipeline ==
    \/ CallMerge
    \/ CallTransform
    \/ CallTransformMerged

SpecPipeline == InitPipeline /\ [][NextPipeline]_vars

(***************************************************************************)
(* ReportStore (reportStore.js).  reports is the module's array, newest    *)
(* first; currentIndex is the 0-based selection, -1 for none; saved is the *)
(* localStorage item; dispatched holds the reportChanged events of the     *)
(* last operation.                                                         *)
(***************************************************************************)
MAX_REPORTS == 5

\* The last value the model lets Date.now() reach; successive adds read
\* successive milliseconds.
MaxClock == 6

DigitChar(d) == Digits[d + 1]

\* Number.prototype.toString of a natural number
RECURSIVE NatToDigits(_)
NatToDigits(n) ==
    IF n < 10 THEN <<DigitChar(n)>> ELSE NatToDigits(n \div 10) \o <<DigitChar(n % 10)>>

\* new Date().toISOString() within the first second of the epoch
toISOString(ms) ==
    Str(<<"1", "9", "7", "0", "-", "0", "1", "-", "0", "1", "T", "0", "0", ":", "0", "0", ":", "0", "0", ".">>
        \o <<DigitChar(ms \div 100), DigitChar((ms \div 10) % 10), DigitChar(ms % 10)>>
        \o <<"Z">>)

UnknownCompany ==
    Str(<<"U", "n", "k", "n", "o", "w", "n", " ", "C", "o", "m", "p", "a", "n", "y">>)

\* The newReport literal of addReport
NewReport(report, now) ==
    Obj([ id            |-> Str(NatToDigits(now)),
          fileName      |-> Get(report, "fileName"),
          companyName   |-> Or(Get(report, "companyName"), UnknownCompany),
          fiscalYear    |-> Or(Get(report, "fiscalYear"), NotAvailable),
          extractedData |-> Get(report, "extractedData"),
          uploadedAt    |-> toISOString(now) ])

\* report.fiscalYears || report.extractedData?.years || []
MergedYears(report) ==
    LET own  == Get(report, "fiscalYears")
        data == Get(report, "extractedData")
        fromData == IF data.t \in {"null", "undefined"} THEN Undef ELSE Get(data, "years")
    IN  Or(Or(own, fromData), Arr(<<>>))

\* years.length > 1 ? `${years[0]}-${years[years.length - 1]}` : years[0] || 'N/A'
YearRange(years) ==
    IF Len(years.a) > 1
    THEN Str(years.a[1].s \o <<"-">> \o years.a[Len(years.a)].s)
    ELSE IF Len(years.a) = 1 THEN Or(years.a[1], NotAvailable) ELSE NotAvailable

\* The newReport literal of addMergedReport
NewMergedReport(report, now) ==
    Obj([ id            |-> Str(NatToDigits(now)),
          fileName      |-> Get(report, "fileName"),
          companyName   |-> Or(Get(report, "companyName"), UnknownCompany),
          fiscalYear    |-> YearRange(MergedYears(report)),
          fiscalYears   |-> MergedYears(report),
          isMerged      |-> Bool(TRUE),
          extractedData |-> Get(report, "extractedData"),
          uploadedAt    |-> toISOString(now) ])

\* Variant: the new report is added at the end of the array.
Unshift_append(rs, newReport) == rs \o <<newReport>>

\* reports.unshift(newReport)
Unshift(rs, newReport) == <<newReport>> \o rs

\* Variant: no limit on the length of the array.
Limit_none(rs) == rs

\* if (reports.length > MAX_REPORTS) reports = reports.slice(0, MAX_REPORTS)
Limit(rs) == IF Len(rs) > MAX_REPORTS THEN SubSeq(rs, 1, MAX_REPORTS) ELSE rs

\* reports.splice(index, 1) for a 0-based index inside the array
Splice(rs, index) == SubSeq(rs, 1, index) \o SubSeq(rs, index + 2, Len(rs))

\* getCurrentReport() on the given state
CurrentReport(rs, ci) == IF ci >= 0 /\ ci < Len(rs) THEN rs[ci + 1] ELSE Null

getCurrentReport == CurrentReport(reports, currentIndex)

\* What JSON.parse(JSON.stringify(v)) gives back: properties that are
\* undefined are dropped, undefined array items and non-finite numbers
\* become null.
RECURSIVE JSONValue(_)
JSONValue(v) ==
    CASE v.t = "number" -> IF IsFinite(v) THEN v ELSE Null
      [] v.t = "array"  -> Arr([i \in 1..Len(v.a) |->
                                  IF v.a[i].t = "undefined" THEN Null ELSE JSONValue(v.a[i])])
      [] v.t = "object" -> Obj([k \in {j \in DOMAIN v.f : v.f[j].t # "undefined"} |->
                                  JSONValue(v.f[k])])
      [] OTHER          -> v

\* The item saveStore writes: JSON.stringify({ reports, currentIndex });
\* setItem is taken to succeed.
StoredItem(rs, ci) ==
    [t |-> "json", v |-> JSONValue(Obj([reports |-> Arr(rs), currentIndex |-> Num(ci)]))]

\* The detail of the reportChanged event of dispatchChangeEvent
ChangeEvent(rs, ci) ==
    Obj([report |-> CurrentReport(rs, ci), index |-> Num(ci), count |-> Num(Len(rs))])

\* window.dispatchEvent(event): the listeners run during the call, with the
\* event's detail and with what localStorage holds at that moment.
Dispatch(detail, item) == [detail |-> detail, storage |-> item]

\* The tail of every operation that changes the store: the assignments,
\* saveStore(), dispatchChangeEvent() and the return value.
Commit_dispatchFirst(op, rs, ci, value) ==
    /\ reports' = rs
    /\ currentIndex' = ci
    /\ dispatched' = <<Dispatch(ChangeEvent(rs, ci), saved)>>
    /\ saved' = StoredItem(rs, ci)
    /\ storeOp' = op
    /\ storeRet' = value

Commit(op, rs, ci, value) ==
    /\ reports' = rs
    /\ currentIndex' = ci
    /\ saved' = StoredItem(rs, ci)
    /\ dispatched' = <<Dispatch(ChangeEvent(rs, ci), saved')>>
    /\ storeOp' = op
    /\ storeRet' = value

\* return false: nothing is written, saved or dispatched.
Refuse(op) ==
    /\ storeOp' = op
    /\ storeRet' = Bool(FALSE)
    /\ dispatched' = <<>>
    /\ UNCHANGED <<reports, currentIndex, saved, clock>>

addReport(report) ==
    /\ clock < MaxClock
    /\ clock' = clock + 1
    /\ \E newReport \in {NewReport(report, clock + 1)} :
          Commit("addReport", Limit(Unshift(reports, newReport)), 0, newReport)

addMergedReport(report) ==
    /\ clock < MaxClock
    /\ clock' = clock + 1
    /\ \E newReport \in {NewMergedReport(report, clock + 1)} :
          Commit("addMergedReport", Limit(Unshift(reports, newReport)), 0, newReport)

setCurrentIndex(index) ==
    IF index >= 0 /\ index < Len(reports)
    THEN Commit("setCurrentIndex", reports, index, Bool(TRUE)) /\ UNCHANGED clock
    ELSE Refuse("setCurrentIndex")

navigatePrev ==
    IF currentIndex < Len(reports) - 1
    THEN Commit("navigatePrev", reports, currentIndex + 1, Bool(TRUE)) /\ UNCHANGED clock
    ELSE Refuse("navigatePrev")

\* Variant: navigateNext jumps to the most recent report.
navigateNext_toNewest ==
    IF currentIndex > 0
    THEN Commit("navigateNext", reports, 0, Bool(TRUE)) /\ UNCHANGED clock
    ELSE Refuse("navigateNext")

navigateNext ==
    IF currentIndex > 0
    THEN Commit("navigateNext", reports, currentIndex - 1, Bool(TRUE)) /\ UNCHANGED clock
    ELSE Refuse("navigateNext")

canNavigatePrev == currentIndex < Len(reports) - 1

canNavigateNext == currentIndex > 0

\* Variant: currentIndex is reset only when the store becomes empty.
deleteReport_noClamp(index) ==
    IF index >= 0 /\ index < Len(reports)
    THEN LET rs == Splice(reports, index)
             ci == IF Len(rs) = 0 THEN -1 ELSE currentIndex
         IN  Commit("deleteReport", rs, ci, Bool(TRUE)) /\ UNCHANGED clock
    ELSE Refuse("deleteReport")

deleteReport(index) ==
    IF index >= 0 /\ index < Len(reports)
    THEN LET rs == Splice(reports, index)
             ci == IF Len(rs) = 0 THEN -1
                   ELSE IF currentIndex >= Len(rs) THEN Len(rs) - 1
                   ELSE currentIndex
         IN  Commit("deleteReport", rs, ci, Bool(TRUE)) /\ UNCHANGED clock
    ELSE Refuse("deleteReport")

clearReports ==
    Commit("clearReports", <<>>, -1, Undef) /\ UNCHANGED clock

\* A page load: the module starts from [] and -1 and reads the saved item.
initReportStore ==
    /\ storeOp' = "initReportStore"
    /\ storeRet' = Undef
    /\ dispatched' = <<>>
    /\ IF saved # Null
       THEN /\ reports' = Or(Get(saved.v, "reports"), Arr(<<>>)).a
            /\ currentIndex' = LET ci == Get(saved.v, "currentIndex")
                               IN  IF ci.t \in {"null", "undefined"} THEN -1 ELSE ci.n
       ELSE /\ reports' = <<>>
            /\ currentIndex' = -1
    /\ UNCHANGED <<saved, clock>>

(***************************************************************************)
(* Specification of the store: any sequence of its operations from the     *)
(* empty store.                                                            *)
(***************************************************************************)
\* What processFile hands to addReport
SingleReportInputs ==
    { Obj([ fileName |-> Str(<<"a">>), companyName |-> Null, fiscalYear |-> Y2023,
            extractedData |-> Obj([fiscalYear |-> Y2023, revenue |-> Num(100)]) ]) }

\* What processMultipleFiles hands to addMergedReport
MergedReportInputs ==
    { Obj([ fileName |-> Str(<<"a", ",", " ", "b">>),
            companyName |-> Str(<<"N", "a", "h", "d", "i">>),
            fiscalYears |-> Arr(<<Y2021, Y2023>>),
            extractedData |-> Obj([years |-> Arr(<<Y2021, Y2023>>),
                                   revenue |-> Arr(<<Num(8250), Num(100)>>)]) ]) }

\* Indexes handed to setCurrentIndex and deleteReport, valid or not.
IndexInputs == -1..MAX_REPORTS

InitStore ==
    /\ StoreIdle
    /\ HelperIdle
    /\ PipeIdle
    /\ UploadIdle

StoreOnly == UNCHANGED <<helperVars, pipeVars, uploadVars>>

CallAddReport == (\E report \in SingleReportInputs : addReport(report)) /\ StoreOnly

CallAddMergedReport == (\E report \in MergedReportInputs : addMergedReport(report)) /\ StoreOnly

CallSetCurrentIndex == (\E index \in IndexInputs : setCurrentIndex(index)) /\ StoreOnly

CallNavigatePrev == navigatePrev /\ StoreOnly

CallNavigateNext == navigateNext /\ StoreOnly

CallDeleteReport == (\E index \in IndexInputs : deleteReport(index)) /\ StoreOnly

CallClearReports == clearReports /\ StoreOnly

CallInitReportStore == initReportStore /\ StoreOnly

NextStore ==
    \/ CallAddReport
    \/ CallAddMergedReport
    \/ CallSetCurrentIndex
    \/ CallNavigatePrev
    \/ CallNavigateNext
    \/ CallDeleteReport
    \/ CallClearReports
    \/ CallInitReportStore

SpecStore == InitStore /\ [][NextStore]_vars

(***************************************************************************)
(* The upload flow (fileUpload.js): handleFileUpload starts processFile or *)
(* processMultipleFiles; each run executes up to its next await in one     *)
(* step and is resumed when the awaited promise settles.  The reset timers *)
(* of the upload zone are not modelled.                                    *)
(***************************************************************************)
FileCap == 3

PdfFile(name) == [name |-> Str(<<name>>), type |-> "application/pdf"]

TextFile(name) == [name |-> Str(<<name>>), type |-> "text/plain"]

\* The files a user selects in the two runs: one PDF, or several files of
\* which some are no PDF and more than FileCap are.
Selections ==
    [ first  |-> { <<PdfFile("a")>>,
                   <<PdfFile("a"), TextFile("x"), PdfFile("b"), PdfFile("e"), PdfFile("f")>> },
      second |-> { <<PdfFile("c")>>, <<PdfFile("c"), PdfFile("d")>> } ]

\* The fiscal year each document reports.
YearOfFile ==
    [ a |-> Y2022, b |-> Y2021, e |-> YUnparsable, f |-> Y2022, x |-> Null,
      c |-> Y2023, d |-> Null ]

\* What callAPI('extract', textContent) returns for the text of a document.
ExtractionOf(textContent) ==
    Obj([ fiscalYear  |-> YearOfFile[textContent.s[1]],
          companyName |-> Str(<<"N", "a", "h", "d", "i">>),
          revenue     |-> Num(8250) ])

\* extractFinancialData(textContent): the extraction, or null when callAPI
\* throws.
DataOutcomes(textContent) == {ExtractionOf(textContent), Null}

\* What extractQualitativeEvents(textContent) resolves to: events or null.
QualOutcomes(textContent) ==
    {Arr(<<Event(textContent.s, YearOfFile[textContent.s[1]], 13)>>), Null}

\* file.type.includes('pdf')
IncludesPdf(type) == type \in {"application/pdf", "application/x-pdf"}

\* files.filter(f => f.type === 'application/pdf')
FilterPdf(files) == SelectSeq(files, LAMBDA f : f.type = "application/pdf")

\* files.slice(0, 3)
SliceCap(files) == SubSeq(files, 1, IF Len(files) < FileCap THEN Len(files) ELSE FileCap)

\* files.map(f => f.name).join(', ')
RECURSIVE JoinNames(_)
JoinNames(files) ==
    IF files = <<>> THEN <<>>
    ELSE IF Len(files) = 1 THEN files[1].name.s
    ELSE files[1].name.s \o <<",", " ">> \o JoinNames(Tail(files))

\* updateFileStatusSafe(index, status)
SetStatus(statuses, index, status) == (index :> status) @@ statuses

\* Variant: the record is added in front of the list.
PushRecord_front(list, data) == <<data>> \o list

\* allExtractedData.push(data)
PushRecord(list, data) == Append(list, data)

\* The head of the loop body for file i: up to await extractTextFromPDF.
EnterFile(rr, i) ==
    [rr EXCEPT !.pc = "text", !.i = i, !.trace = Append(@, <<"text", i>>)]

\* Variant: a catch inside the loop body, which goes on with the next file.
Caught_inLoop(rr) ==
    IF rr.fn = "processMultipleFiles" /\ rr.i + 1 < Len(rr.files)
    THEN EnterFile([rr EXCEPT !.trace = Append(@, <<"throw", rr.i>>)], rr.i + 1)
    ELSE [rr EXCEPT !.pc = "done", !.trace = Append(@, <<"throw", rr.i>>)]

\* The catch block around the whole run: the run ends.
Caught(rr) == [rr EXCEPT !.pc = "done", !.trace = Append(@, <<"throw", rr.i>>)]

UploadOnly == UNCHANGED <<helperVars, dataArrayIn, chartData, phase>>

\* Variant: the catch block shows the error and leaves the overlay.
Catch_overlayLeft(r, rr) ==
    /\ run' = [run EXCEPT ![r] = Caught(rr)]
    /\ zone' = "error"
    /\ UNCHANGED <<allExtractedData, extractedData, fileStatus, overlay, storeVars>>

\* catch (error) { hideLoading(); showError(...) }
Catch(r, rr) ==
    /\ run' = [run EXCEPT ![r] = Caught(rr)]
    /\ overlay' = FALSE
    /\ zone' = "error"
    /\ UNCHANGED <<allExtractedData, extractedData, fileStatus, storeVars>>

\* processMultipleFiles(files) up to its first await
processMultipleFiles(r, files) ==
    /\ allExtractedData' = <<>>
    /\ overlay' = TRUE
    /\ run' = [run EXCEPT ![r] =
                  EnterFile([IdleRun EXCEPT !.fn = "processMultipleFiles", !.files = files], 0)]
    /\ fileStatus' = SetStatus(fileStatus, 0, "Processing")
    /\ UNCHANGED <<extractedData, zone, storeVars>>

\* processFile(file) up to its first await
processFile(r, file) ==
    IF ~IncludesPdf(file.type)
    THEN /\ zone' = "error"
         /\ run' = [run EXCEPT ![r] =
                       [IdleRun EXCEPT !.fn = "processFile", !.files = <<file>>, !.pc = "done"]]
         /\ UNCHANGED <<allExtractedData, extractedData, overlay, fileStatus, storeVars>>
    ELSE /\ overlay' = TRUE
         /\ zone' = "processing"
         /\ run' = [run EXCEPT ![r] =
                       EnterFile([IdleRun EXCEPT !.fn = "processFile", !.files = <<file>>], 0)]
         /\ UNCHANGED <<allExtractedData, extractedData, fileStatus, storeVars>>

\* The change event of the file input.
handleFileUpload(r) ==
    /\ run[r].pc = "idle"
    /\ \E selected \in Selections[r] :
          LET files == FilterPdf(selected)
          IN  IF Len(files) = 1 THEN processFile(r, files[1])
              ELSE Len(files) > 1 /\ processMultipleFiles(r, SliceCap(files))
    /\ UploadOnly

\* The end of the loop body of processMultipleFiles and what follows it:
\* the next file, or the merge and addMergedReport, or the error message.
NextFileOrFinish(r, rr, list, statuses) ==
    IF rr.i + 1 < Len(rr.files)
    THEN /\ run' = [run EXCEPT ![r] = EnterFile(rr, rr.i + 1)]
         /\ allExtractedData' = list
         /\ fileStatus' = SetStatus(statuses, rr.i + 1, "Processing")
         /\ UNCHANGED <<extractedData, overlay, zone, storeVars>>
    ELSE IF Len(list) > 0
    THEN \E mergedData \in {mergeExtractedData(list)} :
         \E report \in {Obj([ fileName      |-> Str(JoinNames(rr.files)),
                              companyName   |-> Get(mergedData, "companyName"),
                              fiscalYears   |-> Get(mergedData, "years"),
                              extractedData |-> mergedData ])} :
             /\ allExtractedData' = SortByFiscalYear(list)
             /\ addMergedReport(report)
             /\ run' = [run EXCEPT ![r] =
                           [rr EXCEPT !.pc = "delay",
                                      !.report = storeRet',
                                      !.trace = Append(@, <<"merge", Len(list)>>)]]
             /\ fileStatus' = statuses
             /\ UNCHANGED <<extractedData, overlay, zone>>
    ELSE /\ run' = [run EXCEPT ![r] = [rr EXCEPT !.pc = "done"]]
         /\ allExtractedData' = list
         /\ fileStatus' = statuses
         /\ overlay' = FALSE
         /\ zone' = "error"
         /\ UNCHANGED <<extractedData, storeVars>>

\* await extractTextFromPDF(file) resolves in processMultipleFiles
MultiTextResolved(r) ==
    /\ run[r].fn = "processMultipleFiles" /\ run[r].pc = "text"
    /\ run' = [run EXCEPT ![r] =
                  [@ EXCEPT !.pc = "data",
                            !.textContent = run[r].files[run[r].i + 1].name,
                            !.trace = @ \o <<(<<"textDone", run[r].i>>), (<<"data", run[r].i>>)>>]]
    /\ UNCHANGED <<allExtractedData, extractedData, overlay, fileStatus, zone, storeVars>>
    /\ UploadOnly

\* await extractTextFromPDF(file) rejects
TextRejected(r) ==
    /\ run[r].pc = "text"
    /\ Catch(r, run[r])
    /\ UploadOnly

\* await extractFinancialData(textContent) returns in processMultipleFiles
MultiDataReturned(r) ==
    /\ run[r].fn = "processMultipleFiles" /\ run[r].pc = "data"
    /\ \E data \in DataOutcomes(run[r].textContent) :
          LET rr == [run[r] EXCEPT !.data = data,
                                   !.trace = Append(@, <<"dataDone", run[r].i>>)]
          IN  IF Truthy(data)
              THEN /\ run' = [run EXCEPT ![r] =
                                 [rr EXCEPT !.pc = "qual", !.trace = Append(@, <<"qual", rr.i>>)]]
                   /\ UNCHANGED <<allExtractedData, extractedData, overlay, fileStatus, zone,
                                  storeVars>>
              ELSE NextFileOrFinish(r, rr, allExtractedData,
                                    SetStatus(fileStatus, rr.i, "Error"))
    /\ UploadOnly

\* await extractQualitativeEvents(textContent) resolves in processMultipleFiles
MultiQualResolved(r) ==
    /\ run[r].fn = "processMultipleFiles" /\ run[r].pc = "qual"
    /\ \E qualEvents \in QualOutcomes(run[r].textContent) :
          LET withEvents == IF Truthy(qualEvents) /\ Len(qualEvents.a) > 0
                            THEN SetProp(run[r].data, "qualitativeEvents", qualEvents)
                            ELSE run[r].data
              data == SetProp(withEvents, "_fileName", run[r].files[run[r].i + 1].name)
              rr   == [run[r] EXCEPT !.data = data,
                                     !.trace = @ \o <<(<<"qualDone", run[r].i>>),
                                                      (<<"push", run[r].i>>)>>]
          IN  NextFileOrFinish(r, rr, PushRecord(allExtractedData, data),
                               SetStatus(fileStatus, rr.i, "Done"))
    /\ UploadOnly

\* await extractQualitativeEvents(textContent) rejects
QualRejected(r) ==
    /\ run[r].pc = "qual"
    /\ Catch(r, run[r])
    /\ UploadOnly

\* The 500 ms delay after the report was stored has elapsed.
DelayElapsed(r) ==
    /\ run[r].pc = "delay"
    /\ run' = [run EXCEPT ![r] = [@ EXCEPT !.pc = "done"]]
    /\ overlay' = FALSE
    /\ zone' = "success"
    /\ UNCHANGED <<allExtractedData, extractedData, fileStatus, storeVars>>
    /\ UploadOnly

\* await extractTextFromPDF(file) resolves in processFile
FileTextResolved(r) ==
    /\ run[r].fn = "processFile" /\ run[r].pc = "text"
    /\ run' = [run EXCEPT ![r] =
                  [@ EXCEPT !.pc = "data",
                            !.textContent = run[r].files[1].name,
                            !.trace = @ \o <<(<<"textDone", 0>>), (<<"data", 0>>)>>]]
    /\ UNCHANGED <<allExtractedData, extractedData, overlay, fileStatus, zone, storeVars>>
    /\ UploadOnly

\* extractedData = await extractFinancialData(textContent) in processFile
FileDataReturned(r) ==
    /\ run[r].fn = "processFile" /\ run[r].pc = "data"
    /\ \E data \in DataOutcomes(run[r].textContent) :
          /\ extractedData' = data
          /\ IF Truthy(data)
             THEN /\ run' = [run EXCEPT ![r] =
                                [@ EXCEPT !.pc = "qual",
                                          !.trace = @ \o <<(<<"dataDone", 0>>), (<<"qual", 0>>)>>]]
                  /\ UNCHANGED <<overlay, zone>>
             ELSE /\ run' = [run EXCEPT ![r] =
                                [@ EXCEPT !.pc = "done", !.trace = Append(@, <<"dataDone", 0>>)]]
                  /\ overlay' = FALSE
                  /\ zone' = "error"
    /\ UNCHANGED <<allExtractedData, fileStatus, storeVars>>
    /\ UploadOnly

\* await extractQualitativeEvents(textContent) resolves in processFile; the
\* module-level extractedData is read again: writing to or reading from
\* null throws a TypeError, which the catch block handles.
FileQualResolved(r) ==
    /\ run[r].fn = "processFile" /\ run[r].pc = "qual"
    /\ \E qualEvents \in QualOutcomes(run[r].textContent) :
          LET rr == [run[r] EXCEPT !.trace = Append(@, <<"qualDone", 0>>)]
          IN  IF extractedData = Null
              THEN Catch(r, rr)
              ELSE LET data == IF Truthy(qualEvents) /\ Len(qualEvents.a) > 0
                               THEN SetProp(extractedData, "qualitativeEvents", qualEvents)
                               ELSE extractedData
                       report == Obj([ fileName      |-> rr.files[1].name,
                                       companyName   |-> Get(data, "companyName"),
                                       fiscalYear    |-> Get(data, "fiscalYear"),
                                       extractedData |-> data ])
                   IN  /\ extractedData' = data
                       /\ addReport(report)
                       /\ run' = [run EXCEPT ![r] = [rr EXCEPT !.pc = "delay", !.report = storeRet']]
                       /\ UNCHANGED <<allExtractedData, overlay, fileStatus, zone>>
    /\ UploadOnly

(***************************************************************************)
(* Specification of the upload flow: two runs started by UI events, each   *)
(* resumed whenever one of its awaited promises settles.                   *)
(***************************************************************************)
InitUpload ==
    /\ UploadIdle
    /\ StoreIdle
    /\ HelperIdle
    /\ PipeIdle

NextUpload ==
    \E r \in Runs :
       \/ handleFileUpload(r)
       \/ MultiTextResolved(r)
       \/ TextRejected(r)
       \/ MultiDataReturned(r)
       \/ MultiQualResolved(r)
       \/ QualRejected(r)
       \/ DelayElapsed(r)
       \/ FileTextResolved(r)
       \/ FileDataReturned(r)
       \/ FileQualResolved(r)

SpecUpload == InitUpload /\ [][NextUpload]_vars

\* The promise run r is waiting for settles: it resolves or rejects, and the
\* run is resumed.
Settle(r) ==
    \/ MultiTextResolved(r)
    \/ TextRejected(r)
    \/ MultiDataReturned(r)
    \/ MultiQualResolved(r)
    \/ QualRejected(r)
    \/ DelayElapsed(r)
    \/ FileTextResolved(r)
    \/ FileDataReturned(r)
    \/ FileQualResolved(r)

(***************************************************************************)
(* The page while the onboarding is displayed: initApp has called          *)
(* initFileUpload(), which attached handleFileUpload to the change event   *)
(* of #fileInput, and then initOnboarding(), whose setupOnboardingEvents  *)
(* attached a second listener to the same input.                           *)
(***************************************************************************)
\* What the user selects on the file input of the onboarding.
OnboardingSelections ==
    { <<PdfFile("c")>>, <<TextFile("x"), PdfFile("c"), PdfFile("d")>> }

\* The start of a run for the filtered files, as both listeners reach it:
\* handleFileUpload directly, the onboarding through handleMultipleFiles
\* and the multipleFilesSelected listener of initFileUpload.
StartedRun(files) ==
    IF Len(files) = 1
    THEN EnterFile([IdleRun EXCEPT !.fn = "processFile", !.files = files], 0)
    ELSE EnterFile([IdleRun EXCEPT !.fn = "processMultipleFiles", !.files = SliceCap(files)], 0)

\* One change event of #fileInput: the listeners run in the order in
\* which they were attached, each up to the first await of its run.
fileInputChange ==
    /\ \A r \in Runs : run[r].pc = "idle"
    /\ \E selected \in OnboardingSelections :
          LET files == FilterPdf(selected)
          IN  /\ run' = [first |-> StartedRun(files), second |-> StartedRun(files)]
              /\ overlay' = TRUE
              /\ IF Len(files) = 1
                 THEN /\ zone' = "processing"
                      /\ UNCHANGED <<allExtractedData, fileStatus>>
                 ELSE /\ allExtractedData' = <<>>
                      /\ fileStatus' = SetStatus(fileStatus, 0, "Processing")
                      /\ UNCHANGED zone
    /\ UNCHANGED <<extractedData, storeVars>>
    /\ UploadOnly

NextOnboarding ==
    \/ fileInputChange
    \/ \E r \in Runs : Settle(r)

SpecOnboarding == InitUpload /\ [][NextOnboarding]_vars

\* Run r has called showLoading and is waiting for one of its promises.
Awaiting(r) == run[r].pc \in {"text", "data", "qual", "delay"}

\* A step that resumes the awaiting run r.
Resumed(r) == Awaiting(r) /\ run'[r] # run[r]

\* Every awaited call of run r returns or throws: weak fairness of
\* Settle(r), whose steps are the Resumed(r) steps and which is enabled
\* exactly while the run is awaiting.
PromisesSettle(r) == []<>(~Awaiting(r)) \/ []<><<Resumed(r)>>_vars

\* The steps that resume an awaiting run are the steps of Settle.
ResumedIsSettle == [][\A r \in Runs : Resumed(r) <=> Settle(r)]_vars

\* An awaiting run can always be resumed: its promise can reject, its
\* timer can fire, or extractFinancialData can return.
SettleEnabled ==
    \A r \in Runs :
       Awaiting(r) =>
          \/ ENABLED <<TextRejected(r) \/ QualRejected(r) \/ DelayElapsed(r)
                          \/ FileDataReturned(r)>>_vars
          \/ /\ run[r].fn = "processMultipleFiles" /\ run[r].pc = "data"
             /\ \E data \in DataOutcomes(run[r].textContent) : Truthy(data)

\* The upload flow when no promise stays pending forever and the timer of
\* the 500 ms delay fires. The user is not obliged to select files.
SpecUploadFair ==
    SpecUpload /\ \A r \in Runs : WF_vars(DelayElapsed(r)) /\ PromisesSettle(r)

(***************************************************************************)
(* Properties.                                                             *)
(***************************************************************************)
\* The array stored under key in a dataset.
ArrayOf(ds, key) == Get(ds, key).a

\* The sort key of the i-th record as it was handed to mergeExtractedData.
InKey(i) == YearKey(Get(dataArrayIn[i], "fiscalYear"))

\* What one record contributes to years and to the metric array key.
YearEntry(rec) == Or(Get(rec, "fiscalYear"), NotAvailable)

MetricEntry(rec, key) == Or(getVal(rec, key), Num(0))

\* C1: after mergeExtractedData on a non-empty batch in any input order, the
\* years ascend by parseInt(fiscalYear) (an unparsable year counting as 0)
\* and one permutation of the input records yields years and every metric
\* array: entry i of each array comes from the record of years[i].
C1_MergeOrdering ==
    phase = "merged" =>
        LET n     == Len(dataArrayIn)
            years == ArrayOf(extractedData, "years")
        IN  /\ Len(years) = n
            /\ \A i \in 1..(n - 1) : YearKey(years[i]) <= YearKey(years[i + 1])
            /\ \E p \in Permutations(1..n) :
                  \A i \in 1..n :
                     /\ years[i] = YearEntry(dataArrayIn[p[i]])
                     /\ \A k \in MetricKeySet :
                           /\ Len(ArrayOf(extractedData, k)) = n
                           /\ ArrayOf(extractedData, k)[i] = MetricEntry(dataArrayIn[p[i]], k)

\* The batch of the specification's example: fiscal years 2023, 2021, 2022.
C1_Witness ==
    /\ phase = "merged"
    /\ Len(dataArrayIn) = 3
    /\ <<InKey(1), InKey(2), InKey(3)>> = <<2023, 2021, 2022>>
    /\ ArrayOf(extractedData, "years") = <<Y2021, Y2022, Y2023>>
    /\ ArrayOf(extractedData, "revenue") = <<Num(8250), Rat(86162, 10), Rat(87137, 10)>>

\* The array-valued series of a dataset, apart from years itself and the
\* two lists that are not indexed by year.
SeriesKeys(ds) ==
    {k \in DOMAIN ds.f \ {"years", "qualitativeEvents", "_sources"} : ds.f[k].t = "array"}

\* The series transformExtractedData wraps into one-element arrays.
TransformSeries ==
    { "revenue", "grossMargin", "netMargin", "netProfit", "currentRatio", "debtToEquity",
      "totalLiabilities", "totalEquity", "operatingCashFlow", "investingCashFlow",
      "financingCashFlow", "fcf" }

Aligned(ds, n) ==
    /\ Len(ArrayOf(ds, "years")) = n
    /\ \A k \in SeriesKeys(ds) : Len(ds.f[k].a) = n

\* C2: the series of a dataset stay aligned: every metric array of the
\* merge of n records has length years.length = n, and every array that
\* transformExtractedData builds for a single record has length
\* years.length = 1.
C2_SeriesAligned ==
    /\ phase = "merged" =>
          /\ MetricKeySet \subseteq SeriesKeys(extractedData)
          /\ Aligned(extractedData, Len(dataArrayIn))
    /\ phase = "transformed" =>
          /\ TransformSeries \subseteq SeriesKeys(chartData)
          /\ Aligned(chartData, 1)

\* A merge of three records of which one reports no netProfit and another
\* no roe.
C2_Witness ==
    /\ phase = "merged"
    /\ Len(dataArrayIn) = 3
    /\ \E i \in 1..3 : getVal(dataArrayIn[i], "netProfit") = Null
    /\ \E i \in 1..3 : getVal(dataArrayIn[i], "roe") # Null
    /\ Len(ArrayOf(extractedData, "roe")) = 3

\* C3: companyName and fiscalYear of the merged dataset are those of the
\* record with the greatest parsed fiscal year, the last one in input order
\* among equals; companyName is 'Company' only when that record's name is
\* empty or null.
C3_LatestRecordWins ==
    phase = "merged" =>
        \E j \in 1..Len(dataArrayIn) :
           /\ \A i \in 1..Len(dataArrayIn) : InKey(i) <= InKey(j)
           /\ \A i \in (j + 1)..Len(dataArrayIn) : InKey(i) < InKey(j)
           /\ Get(extractedData, "fiscalYear") = Get(dataArrayIn[j], "fiscalYear")
           /\ Get(extractedData, "companyName") =
                 IF Truthy(Get(dataArrayIn[j], "companyName"))
                 THEN Get(dataArrayIn[j], "companyName")
                 ELSE Str(<<"C", "o", "m", "p", "a", "n", "y">>)

\* The record of the latest year comes first in the input and carries a
\* name different from the others.
C3_Witness ==
    /\ phase = "merged"
    /\ Len(dataArrayIn) = 3
    /\ InKey(1) > InKey(2) /\ InKey(1) > InKey(3)
    /\ Get(dataArrayIn[1], "companyName") # Get(dataArrayIn[3], "companyName")
    /\ Get(extractedData, "companyName") = Get(dataArrayIn[1], "companyName")

\* The events of the input records, concatenated in input order.
RECURSIVE InputEvents(_)
InputEvents(i) ==
    IF i > Len(dataArrayIn) THEN <<>>
    ELSE SpreadItems(Get(dataArrayIn[i], "qualitativeEvents")) \o InputEvents(i + 1)

Count(e, seq) == Cardinality({i \in 1..Len(seq) : seq[i] = e})

EventKey(e) == YearKey(Get(e, "year"))

\* C4: the qualitativeEvents of the merged dataset are the events of all
\* input records, each as often as it was given, ordered by
\* parseInt(event.year) descending.
C4_EventsDescending ==
    phase = "merged" =>
        LET out == ArrayOf(extractedData, "qualitativeEvents")
            inp == InputEvents(1)
        IN  /\ Len(out) = Len(inp)
            /\ \A i \in 1..Len(inp) : Count(inp[i], out) = Count(inp[i], inp)
            /\ \A i \in 1..(Len(out) - 1) : EventKey(out[i]) >= EventKey(out[i + 1])

\* The records and the events arrive in ascending year order.
C4_Witness ==
    /\ phase = "merged"
    /\ Len(dataArrayIn) >= 2
    /\ \A i \in 1..(Len(dataArrayIn) - 1) : InKey(i) < InKey(i + 1)
    /\ Len(InputEvents(1)) >= 3
    /\ \A i \in 1..(Len(InputEvents(1)) - 1) :
          EventKey(InputEvents(1)[i]) < EventKey(InputEvents(1)[i + 1])
    /\ EventKey(ArrayOf(extractedData, "qualitativeEvents")[1]) = 2023

C6_ToMillionsThreshold ==
    fn = "toMillions" =>
        /\ Gt(Abs(arg), Num(100000)) => (Mul(ret, Num(1000000)) = arg /\ ret # arg)
        /\ ~Gt(Abs(arg), Num(100000)) => ret = arg
        /\ SignInt(ret.n) = SignInt(arg.n)
        /\ arg = Num(100000) => ret = Num(100000)
        /\ arg = Num(-100000) => ret = Num(-100000)
        /\ arg = Num(100001) => ret = Rat(100001, 1000000)
        /\ arg = Num(-100001) => ret = Rat(-100001, 1000000)
        /\ arg = Num(0) => ret = Num(0)

\* The first negative value above the threshold is divided.
C6_Witness ==
    /\ fn = "toMillions"
    /\ arg = Num(-100001)
    /\ ret = Rat(-100001, 1000000)

\* C7: normalizeCompanyName is idempotent: normalizing a normalized name
\* returns it unchanged, for every name.
C7_NormalizeIdempotent ==
    fn = "normalizeCompanyName2" => ret = arg

\* The coerced and unit-normalized base figure of the transformed record.
BaseFigure(key) == toMillions(getValue(Get(extractedData, key), Num(0)))

\* The ratio the extraction reported, coerced.
Reported(key) == getValue(Get(extractedData, key), Num(0))

\* result is reported when that is truthy, numerator / divisor * scale when
\* reported is falsy and divisor > 0, and 0 otherwise.
RatioRule(result, reported, numerator, divisor, scale) ==
    /\ Truthy(reported) => result = reported
    /\ (~Truthy(reported) /\ Gt(divisor, Num(0))) =>
          Mul(result, divisor) = Mul(numerator, Num(scale))
    /\ (~Truthy(reported) /\ ~Gt(divisor, Num(0))) => result = Num(0)

\* C8: each derived ratio of transformExtractedData (netMargin,
\* currentRatio, debtToEquity, roe) is the reported value when that is
\* truthy, the formula over the base figures when the reported value is
\* falsy and the divisor is > 0, and 0 when the reported value is falsy
\* and the divisor is <= 0.
C8_DerivedRatios ==
    phase = "transformed" =>
        /\ RatioRule(ArrayOf(chartData, "netMargin")[1], Reported("netMargin"),
                     BaseFigure("netProfit"), BaseFigure("revenue"), 100)
        /\ RatioRule(ArrayOf(chartData, "currentRatio")[1], Reported("currentRatio"),
                     BaseFigure("currentAssets"), BaseFigure("currentLiabilities"), 1)
        /\ RatioRule(ArrayOf(chartData, "debtToEquity")[1], Reported("debtToEquity"),
                     BaseFigure("totalLiabilities"), BaseFigure("shareholderEquity"), 1)
        /\ RatioRule(Get(chartData, "roe"), Reported("roe"),
                     BaseFigure("netProfit"), BaseFigure("shareholderEquity"), 100)

\* One record shows the three cases: roe reported as 0 and computed from a
\* positive equity, netMargin missing and left at 0 for a negative revenue,
\* currentRatio reported and kept.
C8_Witness ==
    /\ phase = "transformed"
    /\ Get(extractedData, "roe") = Obj([value |-> Num(0)])
    /\ Gt(BaseFigure("shareholderEquity"), Num(0))
    /\ Truthy(Get(chartData, "roe"))
    /\ Get(extractedData, "netMargin") = Undef
    /\ Gt(Num(0), BaseFigure("revenue"))
    /\ ArrayOf(chartData, "netMargin")[1] = Num(0)
    /\ Truthy(Reported("currentRatio"))
    /\ ArrayOf(chartData, "currentRatio")[1] = Reported("currentRatio")

\* A field reports a value: a plain number or a { value: number } wrapper.
ReportsNumber(field) ==
    field.t = "number" \/ (field.t = "object" /\ Get(field, "value").t = "number")

\* The estimate of a cash-flow field from the transformed netProfit.
CashEstimate(key) ==
    CASE key = "operatingCashFlow" -> Mul(BaseFigure("netProfit"), Rat(12, 10))
      [] key = "investingCashFlow" -> Mul(Neg(BaseFigure("netProfit")), Rat(3, 10))
      [] key = "financingCashFlow" -> Mul(Neg(BaseFigure("netProfit")), Rat(5, 10))
      [] key = "fcf"               -> Mul(BaseFigure("netProfit"), Rat(9, 10))

\* C9: the cash-flow fields of transformExtractedData carry the record's
\* reported value whenever the record reports one, as a plain number or as
\* a { value } wrapper; the netProfit-based estimate is used only when the
\* field is absent.
C9_CashFlowReported ==
    phase = "transformed" =>
        \A k \in CashFlowKeys :
           LET field == Get(extractedData, k)
               out   == ArrayOf(chartData, k)[1]
           IN  /\ ReportsNumber(field) => out = getValue(field, Num(0))
               /\ field.t \in {"null", "undefined"} => out = CashEstimate(k)

\* C10 as stated: the pass-through branch returns its input with every
\* field unchanged except companyName and roe, and adds or removes none.
C10_PassThroughFrame ==
    phase = "passedThrough" =>
        /\ DOMAIN chartData.f = DOMAIN extractedData.f
        /\ \A k \in DOMAIN extractedData.f \ {"companyName", "roe"} :
              Get(chartData, k) = Get(extractedData, k)

\* C10 amended: the pass-through branch returns its input with every field
\* unchanged except companyName (re-normalized), roe (the last element of
\* the array) and totalEquity (set to shareholderEquity || totalEquity);
\* no other field is added, removed or altered.
C10_PassThroughFrameAmended ==
    phase = "passedThrough" =>
        LET roe == Get(extractedData, "roe")
        IN  /\ DOMAIN chartData.f = DOMAIN extractedData.f \cup {"companyName", "roe", "totalEquity"}
            /\ \A k \in DOMAIN extractedData.f \ {"companyName", "roe", "totalEquity"} :
                  Get(chartData, k) = Get(extractedData, k)
            /\ Get(chartData, "companyName") = normalizeCompanyName(Get(extractedData, "companyName"))
            /\ roe.t = "array" => Get(chartData, "roe") = roe.a[Len(roe.a)]
            /\ roe.t # "array" => Get(chartData, "roe") = roe
            /\ Get(chartData, "totalEquity") =
                  IF Truthy(Get(extractedData, "shareholderEquity"))
                  THEN Get(extractedData, "shareholderEquity")
                  ELSE Get(extractedData, "totalEquity")

\* A merged dataset of two years whose roe differs between the years and
\* whose name the normalizer changes.
C10_Witness ==
    /\ phase = "passedThrough"
    /\ Len(ArrayOf(extractedData, "roe")) >= 2
    /\ ArrayOf(extractedData, "roe")[1] # ArrayOf(extractedData, "roe")[Len(ArrayOf(extractedData, "roe"))]
    /\ Get(chartData, "companyName") # Get(extractedData, "companyName")
    /\ Get(chartData, "totalEquity") = Get(extractedData, "shareholderEquity")
    /\ Get(chartData, "years") = Get(extractedData, "years")

\* A resolved numeric output: a finite number, or null for "absent".
Resolved(v) == v = Null \/ IsFinite(v)

\* The scalar numeric fields of the dataset of a single record.
TransformScalars == {"segmentPharma", "segmentFrontShop", "roe", "eps"}

\* C11: transformExtractedData does not throw on a raw extraction record,
\* and every numeric field of its result (the one entry of each series and
\* each scalar) is a finite number or null: never NaN, undefined or a string.
C11_TransformTotal ==
    phase = "transformed" =>
        /\ chartData # Throw
        /\ \A k \in TransformSeries : Resolved(ArrayOf(chartData, k)[1])
        /\ \A k \in TransformScalars : Resolved(Get(chartData, k))

\* C19: getValue(field, d) returns d for null and undefined, the number
\* itself for a number, field.value for an object whose value is a number,
\* and d for an object whose value is a string, null or missing.
C19_GetValueCases ==
    fn = "getValue" =>
        /\ arg.t \in {"null", "undefined"} => ret = dflt
        /\ arg.t = "number" => ret = arg
        /\ arg.t = "object" =>
              ret = IF Get(arg, "value").t = "number" THEN Get(arg, "value") ELSE dflt

\* { value: "42" } with the default 99: the string is not parsed.
C19_Witness ==
    /\ fn = "getValue"
    /\ arg = Obj([value |-> Str(<<"4", "2">>)])
    /\ dflt = Num(99)
    /\ ret = Num(99)

\* The series that mergeExtractedData and transformExtractedData both fill.
SharedSeries == MetricKeySet \cap TransformSeries

\* C12: every entry of the merged metric arrays equals what
\* transformExtractedData yields for that record alone (figures above
\* 100000 rescaled to millions, missing ratios derived from base figures).
C12_MergeOfTransformed ==
    phase = "merged" =>
        \A i \in 1..Len(allExtractedData) : \A k \in SharedSeries :
           ArrayOf(extractedData, k)[i]
              = ArrayOf(transformExtractedData(allExtractedData[i]), k)[1]

\* The failure the specification asks for on an empty batch.
InvalidInput == [t |-> "throw", kind |-> "InvalidInput"]

\* C13: mergeExtractedData on zero records fails with an InvalidInput-kind
\* failure and yields no dataset.
C13_EmptyMergeRejected ==
    (phase = "threw" /\ dataArrayIn = <<>>) => extractedData = InvalidInput

\* The number C20 expects for one field of a record.
NumberOrZero(field) ==
    IF field.t = "number" THEN field
    ELSE IF field.t = "object" /\ Get(field, "value").t = "number" THEN Get(field, "value")
    ELSE Num(0)

\* C20: every entry of every metric array of mergeExtractedData is a
\* number: the record's value for a plain number or a { value } wrapper
\* around a number, and 0 for a missing, null or string field and for a
\* wrapper around a non-number.
C20_MergedEntriesNumeric ==
    phase = "merged" =>
        \A i \in 1..Len(allExtractedData) : \A k \in MetricKeySet :
           LET entry == ArrayOf(extractedData, k)[i]
           IN  /\ IsFinite(entry)
               /\ entry = NumberOrZero(Get(allExtractedData[i], k))

\* The operations that add a report.
AddOps == {"addReport", "addMergedReport"}

\* The ids of the stored reports, as numbers, newest first.
ReportIds == [i \in 1..Len(reports) |-> DigitsToNat(Get(reports[i], "id").s)]

\* C14: the store never holds more than MAX_REPORTS reports, and an add to
\* a full store drops exactly the last (oldest-inserted) report: the new
\* report is followed by the first four of the old list, in their order.
C14_BoundedEviction ==
    /\ [](Len(reports) <= MAX_REPORTS)
    /\ [][ (storeOp' \in AddOps /\ clock' = clock + 1 /\ Len(reports) = MAX_REPORTS) =>
              reports' = <<storeRet'>> \o SubSeq(reports, 1, MAX_REPORTS - 1) ]_vars

\* The sixth report has just been added: the first one is gone.
C14_Witness ==
    /\ storeOp \in AddOps
    /\ clock = MAX_REPORTS + 1
    /\ ReportIds = <<6, 5, 4, 3, 2>>

\* C15: when addReport or addMergedReport has returned, the returned report
\* is reports[0], currentIndex is 0 and getCurrentReport() is that report.
C15_AddedIsCurrent ==
    storeOp \in AddOps =>
        /\ storeRet.t = "object"
        /\ reports[1] = storeRet
        /\ currentIndex = 0
        /\ getCurrentReport = storeRet

\* A merged report added to a store of two older reports.
C15_Witness ==
    /\ storeOp = "addMergedReport"
    /\ Len(reports) = 3
    /\ Get(storeRet, "fiscalYear") = Str(<<"2", "0", "2", "1", "-", "2", "0", "2", "3">>)
    /\ getCurrentReport = storeRet
    /\ reports[2] # storeRet

\* The other of the two runs.
Other(r) == CHOOSE o \in Runs : o # r

\* The steps of one kind in the history of a run.
Steps(r, kind) == SelectSeq(run[r].trace, LAMBDA e : e[1] = kind)

\* Step <<kind, j>> occurs in the history of run r before position p.
Before(r, p, kind, j) == \E q \in 1..(p - 1) : run[r].trace[q] = <<kind, j>>

\* C16: in a run of processMultipleFiles the text extraction of file j + 1
\* starts only after the text extraction and the AI calls of file j have
\* completed, records are pushed in the order of the files, and, as long
\* as no other run is active and the list is not yet merged, the
\* accumulated list holds the pushed records in that order.
C16_Sequential ==
    \A r \in Runs :
       run[r].fn = "processMultipleFiles" =>
          LET t      == run[r].trace
              pushes == Steps(r, "push")
          IN  /\ \A p \in 1..Len(t) :
                    (t[p][1] = "text" /\ t[p][2] > 0) =>
                       LET j == t[p][2] - 1
                       IN  /\ Before(r, p, "textDone", j)
                           /\ Before(r, p, "dataDone", j)
                           /\ Before(r, p, "qual", j) => Before(r, p, "qualDone", j)
              /\ \A p \in 1..(Len(pushes) - 1) : pushes[p][2] < pushes[p + 1][2]
              /\ (run[Other(r)].pc = "idle" /\ run[r].pc \in {"text", "data", "qual"}) =>
                    /\ Len(allExtractedData) = Len(pushes)
                    /\ \A k \in 1..Len(pushes) :
                          Get(allExtractedData[k], "_fileName")
                             = run[r].files[pushes[k][2] + 1].name

\* Two records are in the list and the third file is being read.
C16_Witness ==
    /\ run["second"].pc = "idle"
    /\ run["first"].pc = "text"
    /\ run["first"].i = 2
    /\ Len(allExtractedData) = 2
    /\ Get(allExtractedData[1], "_fileName") = Str(<<"a">>)
    /\ Get(allExtractedData[2], "_fileName") = Str(<<"b">>)

\* C17: once an awaited step has thrown in a run of processMultipleFiles,
\* the run does nothing more: the throw is the last step of its history,
\* no merge was performed and no report was added, whatever the earlier
\* files yielded.
C17_StopAtFirstThrow ==
    \A r \in Runs :
       run[r].fn = "processMultipleFiles" =>
          \A p \in 1..Len(run[r].trace) :
             run[r].trace[p][1] = "throw" =>
                /\ p = Len(run[r].trace)
                /\ run[r].pc = "done"
                /\ Steps(r, "merge") = <<>>
                /\ run[r].report = Undef
                /\ run[Other(r)].pc = "idle" => reports = <<>>

\* The first file was extracted and pushed, the second one threw.
C17_Witness ==
    /\ run["second"].pc = "idle"
    /\ Steps("first", "throw") = <<(<<"throw", 1>>)>>
    /\ Steps("first", "push") = <<(<<"push", 0>>)>>
    /\ Len(allExtractedData) = 1
    /\ reports = <<>>
    /\ overlay = FALSE

\* The fiscal years a stored report covers.
ReportYears(report) ==
    LET data == Get(report, "extractedData")
    IN  IF Get(data, "years").t = "array"
        THEN {Get(data, "years").a[k] : k \in 1..Len(Get(data, "years").a)}
        ELSE {YearEntry(data)}

\* The fiscal years the documents of a run report.
FileYears(files) ==
    {Or(YearOfFile[files[k].name.s[1]], NotAvailable) : k \in 1..Len(files)}

\* C18: the report a run stores holds only records extracted from that
\* run's own files, also when the other run was started while it was
\* suspended at an await.
C18_RunsIsolated ==
    \A r \in Runs :
       run[r].report # Undef => ReportYears(run[r].report) \subseteq FileYears(run[r].files)

\* A record reports a field: the field is present and not null.
ReportsField(rec, key) == Get(rec, key).t \notin {"null", "undefined"}

\* The number a record reports in a year-keyed field: the number itself, the
\* number in a { value } wrapper, the number a decorated string spells, or
\* the entry of a year-keyed object.
ReportedNumber(field, yearKey) ==
    IF field.t = "object" /\ Get(field, "value") = Undef
    THEN Get(field, yearKey)
    ELSE getValue(field, Null)

\* The year-keyed map under key agrees with the records of the batch.
YearKeyed(key) ==
    LET map       == Get(extractedData, key).f
        reporting == {i \in 1..Len(dataArrayIn) : ReportsField(dataArrayIn[i], key)}
    IN  /\ DOMAIN map = {PropKey(YearEntry(dataArrayIn[i])) : i \in reporting}
        /\ \A y \in DOMAIN map :
              /\ IsFinite(map[y])
              /\ \E i \in reporting :
                    /\ PropKey(YearEntry(dataArrayIn[i])) = y
                    /\ map[y] = ReportedNumber(Get(dataArrayIn[i], key), y)

\* C21: in the output of mergeExtractedData, dividends and cashEquivalents
\* have a key for year y exactly when some record of year y reports the
\* field, and the value under the key is the number that record reported.
C21_YearKeyedMaps ==
    phase = "merged" => (YearKeyed("dividends") /\ YearKeyed("cashEquivalents"))

\* C22: mergeExtractedData sorts a record with a null or unparsable
\* fiscalYear with key 0, before every record with a positive year, and
\* keeps the input order of records with equal keys: the sorted list and
\* years are the one stable arrangement of the input.
C22_StableYearSort ==
    phase = "merged" =>
        LET n     == Len(dataArrayIn)
            years == ArrayOf(extractedData, "years")
        IN  \E p \in Permutations(1..n) :
               /\ \A i \in 1..n :
                     /\ allExtractedData[i] = dataArrayIn[p[i]]
                     /\ years[i] = YearEntry(dataArrayIn[p[i]])
               /\ \A i \in 1..n, j \in 1..n :
                     i < j =>
                        \/ InKey(p[i]) < InKey(p[j])
                        \/ (InKey(p[i]) = InKey(p[j]) /\ p[i] < p[j])
               /\ \A i \in 1..n :
                     parseInt(Get(dataArrayIn[p[i]], "fiscalYear")) = NaN =>
                        /\ InKey(p[i]) = 0
                        /\ \A j \in 1..n : InKey(p[j]) > 0 => i < j

\* "FY24", 2021, null: the two key-0 records lead, in their input order.
C22_Witness ==
    /\ phase = "merged"
    /\ Len(dataArrayIn) = 3
    /\ Get(dataArrayIn[1], "fiscalYear") = YUnparsable
    /\ Get(dataArrayIn[2], "fiscalYear") = Y2021
    /\ Get(dataArrayIn[3], "fiscalYear") = Null
    /\ ArrayOf(extractedData, "years") = <<YUnparsable, NotAvailable, Y2021>>

\* Number of positions of s holding v.
Occurrences(s, v) == Cardinality({i \in 1..Len(s) : s[i] = v})

\* C23: the merge does not de-duplicate: every year appears in years as
\* often as input records carry it, and every metric array has one entry
\* per input record.
C23_NoDeduplication ==
    phase = "merged" =>
        LET n     == Len(dataArrayIn)
            years == ArrayOf(extractedData, "years")
            inYrs == [i \in 1..n |-> YearEntry(dataArrayIn[i])]
        IN  /\ Len(years) = n
            /\ \A i \in 1..n : Occurrences(years, inYrs[i]) = Occurrences(inYrs, inYrs[i])
            /\ \A k \in MetricKeySet : Len(ArrayOf(extractedData, k)) = n

\* Two records for fiscal year 2023 among three.
C23_Witness ==
    /\ phase = "merged"
    /\ Len(dataArrayIn) = 3
    /\ Occurrences(ArrayOf(extractedData, "years"), Y2023) = 2
    /\ Len(ArrayOf(extractedData, "revenue")) = 3
    /\ dataArrayIn[1] # dataArrayIn[3]
    /\ Get(dataArrayIn[1], "fiscalYear") = Get(dataArrayIn[3], "fiscalYear")

\* The files of run r whose processing has failed: the awaited call threw,
\* or extractFinancialData returned no data.
Failed(r) ==
    {j \in 0..(Len(run[r].files) - 1) :
        \/ Steps(r, "throw") = <<(<<"throw", j>>)>>
        \/ /\ Steps(r, "dataDone") # <<>>
           /\ \E p \in 1..Len(run[r].trace) :
                 /\ run[r].trace[p] = <<"dataDone", j>>
                 /\ (p = Len(run[r].trace) \/ run[r].trace[p + 1] # <<"qual", j>>)}

\* The files of run r that yielded a record.
Yielded(r) == {j \in 0..(Len(run[r].files) - 1) : Steps(r, "push") # <<>> /\
                  \E p \in 1..Len(run[r].trace) : run[r].trace[p] = <<"push", j>>}

\* The run r is the only batch that has written the per-file statuses.
OnlyBatch(r) ==
    /\ run[r].fn = "processMultipleFiles"
    /\ run[Other(r)].fn # "processMultipleFiles"

\* C24: every file of a batch whose processing fails has status 'Error'
\* and contributes no record.
C24_FailedFilesMarked ==
    \A r \in Runs :
       OnlyBatch(r) =>
          \A j \in Failed(r) :
             /\ fileStatus[j] = "Error"
             /\ j \notin Yielded(r)

\* The part of C24 about extractFinancialData yielding no data: the file is
\* marked 'Error', the loop goes on, and the merged report is built from
\* exactly the files that yielded data.
C24_NoDataSkipped ==
    \A r \in Runs :
       OnlyBatch(r) =>
          /\ \A j \in Failed(r) :
                Steps(r, "throw") # <<(<<"throw", j>>)>> =>
                   /\ fileStatus[j] = "Error"
                   /\ j \notin Yielded(r)
                   /\ (run[r].pc = "done" /\ Steps(r, "throw") = <<>>) =>
                         \A k \in 0..(Len(run[r].files) - 1) : k \in Failed(r) \cup Yielded(r)
          /\ Steps(r, "merge") # <<>> =>
                /\ Steps(r, "merge") = <<(<<"merge", Cardinality(Yielded(r))>>)>>
                /\ {Get(s, "file") : s \in {ArrayOf(Get(run[r].report, "extractedData"), "_sources")[i] :
                                             i \in 1..Cardinality(Yielded(r))}}
                     = {run[r].files[j + 1].name : j \in Yielded(r)}

\* The middle file of three yielded no data and the report was built from
\* the other two.
C24_NoDataWitness ==
    /\ OnlyBatch("first")
    /\ Failed("first") = {1}
    /\ Yielded("first") = {0, 2}
    /\ fileStatus[1] = "Error"
    /\ Steps("first", "merge") = <<(<<"merge", 2>>)>>

\* C25: deleteReport(i) with a valid index removes exactly report i and
\* keeps the order of the others; whenever the current report is not the
\* one deleted, getCurrentReport() returns the same report afterwards, for
\* i below as well as above currentIndex.
C25_DeleteKeepsCurrent ==
    [][\A index \in IndexInputs :
          (/\ index >= 0 /\ index < Len(reports)
           /\ CallDeleteReport
           /\ storeRet' = Bool(TRUE)
           /\ reports' = Splice(reports, index))
          => /\ Len(reports') = Len(reports) - 1
             /\ \A k \in 1..Len(reports') :
                   reports'[k] = IF k <= index THEN reports[k] ELSE reports[k + 1]
             /\ index # currentIndex => getCurrentReport' = getCurrentReport]_vars

\* C26: from the empty store, after any sequence of store operations and
\* page loads, currentIndex is -1 exactly when the store is empty and
\* otherwise 0 <= currentIndex < reports.length; getCurrentReport() returns
\* null only for an empty store.
C26_IndexInRange ==
    /\ (currentIndex = -1) <=> (reports = <<>>)
    /\ reports # <<>> => (0 <= currentIndex /\ currentIndex < Len(reports))
    /\ (getCurrentReport = Null) <=> (reports = <<>>)

\* The last of two remaining reports is current after a deletion.
C26_Witness ==
    /\ storeOp = "deleteReport"
    /\ storeRet = Bool(TRUE)
    /\ Len(reports) = 2
    /\ currentIndex = 1
    /\ getCurrentReport = reports[2]

\* One call of a navigation function: it moves currentIndex by delta inside
\* the bounds and returns true, or returns false and changes nothing; can
\* is the value of the matching canNavigate function before the call.
NavigateStep(delta, can) ==
    /\ \/ /\ storeRet' = Bool(TRUE)
          /\ currentIndex' = currentIndex + delta
          /\ 0 <= currentIndex' /\ currentIndex' < Len(reports)
          /\ reports' = reports
       \/ /\ storeRet' = Bool(FALSE)
          /\ UNCHANGED <<reports, currentIndex>>
    /\ can <=> (storeRet' = Bool(TRUE))

\* C27: navigatePrev and navigateNext move currentIndex by exactly one
\* (+1 resp. -1) inside the bounds and return true, or return false and
\* leave reports and currentIndex unchanged; canNavigatePrev and
\* canNavigateNext tell which; navigateNext right after a successful
\* navigatePrev succeeds and steps back to the index before.
C27_NavigateByOne ==
    [][/\ storeOp' = "navigatePrev" => NavigateStep(1, canNavigatePrev)
       /\ storeOp' = "navigateNext" => NavigateStep(-1, canNavigateNext)
       /\ (storeOp = "navigatePrev" /\ storeRet = Bool(TRUE) /\ storeOp' = "navigateNext")
             => (storeRet' = Bool(TRUE) /\ currentIndex' = currentIndex - 1)]_vars

\* navigateNext has just undone a navigatePrev in a store of three reports.
C27_Witness ==
    /\ storeOp = "navigateNext"
    /\ storeRet = Bool(TRUE)
    /\ Len(reports) = 3
    /\ currentIndex = 1
    /\ canNavigatePrev /\ canNavigateNext

\* The operations of the store that assign reports or currentIndex and
\* call saveStore() and dispatchChangeEvent().
Mutators ==
    {"addReport", "addMergedReport", "setCurrentIndex", "navigatePrev", "navigateNext",
     "deleteReport", "clearReports"}

C28_RefusedWitness ==
    /\ storeOp = "setCurrentIndex"
    /\ storeRet = Bool(FALSE)
    /\ reports # <<>>
    /\ saved # Null
    /\ dispatched = <<>>

\* C29: when every awaited call returns or throws, every run that shows
\* the loading overlay comes to its end, on every path, and the step that
\* ends it leaves the overlay hidden.
C29_OverlayHidden ==
    /\ [][\A r \in Runs :
             (Awaiting(r) /\ run'[r].pc = "done") => overlay' = FALSE]_vars
    /\ \A r \in Runs : Awaiting(r) ~> (run[r].pc = "done" /\ overlay = FALSE)

\* Both runs have ended, one in the catch block and one with a report, and
\* the overlay is hidden.
C29_Witness ==
    /\ run["first"].pc = "done" /\ run["second"].pc = "done"
    /\ Steps("first", "throw") # <<>>
    /\ Steps("second", "merge") # <<>>
    /\ overlay = FALSE

\* The runs that have been started.
Started == {r \in Runs : run[r].fn # "none"}

\* C30: while the onboarding is displayed, one selection of PDF files on
\* the file input starts exactly one processing run and adds at most one
\* report.
C30_OneRunPerSelection ==
    /\ Cardinality(Started) <= 1
    /\ Len(reports) <= 1

====
